---- MODULE Spec2Model ----
(***************************************************************************)
(* Model of the App component of src/src/App.tsx: the tournament-list and  *)
(* snapshot fetchers, the poll interval, the position-change tracker with  *)
(* its decay timeout, the main-content render switch, the PDF export, the  *)
(* wall clock, the countdown timer and the auto-scroll of the standings.   *)
(*                                                                         *)
(* React state hooks are the variables.  An action is one event-loop task: *)
(* a user event, a timer callback or the continuation of an await, taken   *)
(* together with the render and the effects it triggers.                   *)
(***************************************************************************)
EXTENDS FiniteSets, Integers, Naturals, Sequences, TLC

VARIABLES
    mounted,               \* the App component is mounted (refs attached, effects live)
    selectedTournamentId,  \* useState<string>('')                       line 108
    tournaments,           \* useState<TournamentInfo[]>([])             line 107
    tournamentData,        \* useState<TournamentData | null>(null)      line 98
    isLoading,             \* useState(true)                             line 99
    error,                 \* useState<string | null>(null)              line 100
    prevPositions,         \* useState<Map<string, number>>              line 103
    positionChanges,       \* useState<Map<string, 'up'|'down'|'none'>>  line 104
    displayMode,           \* useState('standings')                      line 110
    isExporting,           \* useState(false)                            line 126
    listReqs,              \* tournament-list requests in flight, oldest first
    dataReqs,              \* snapshot requests in flight, oldest first
    pollInterval,          \* tournament the live setInterval polls, "" when none
    decayTimer,            \* ticks left on the decay setTimeout, TimerOff when none
    exports,               \* exportToPDF invocations suspended at an await
    exportOutcome,         \* how the last finished exportToPDF ended
    rendered,              \* what the last recorded render derived from the snapshot
    time,                  \* useState(10 * 60)                         line 90
    isRunning,             \* useState(false)                           line 91
    initialTime,           \* useState(10 * 60)                         line 92
    customMinutes,         \* useState('')                              line 94
    customSeconds,         \* useState('')                              line 95
    countdownInterval,     \* the countdown effect's setInterval is live
    currentTime,           \* useState(new Date()), as a clock reading   line 93
    clockInterval,         \* the clock effect's setInterval is live
    autoScrollEnabled,     \* useState(true)                            line 119
    scrollDirection,       \* useState<'down' | 'up'>('down')           line 118
    autoScroll,            \* the auto-scroll effect's live setInterval and its closure
    pauseTimeout,          \* the live effect run's pauseTimeout is pending
    userScrollTimeout      \* userScrollTimeoutRef.current is a pending timeout

countdownVars == <<time, isRunning, initialTime, customMinutes, customSeconds,
                   countdownInterval>>

clockVars == <<currentTime, clockInterval>>

scrollVars == <<autoScrollEnabled, scrollDirection, autoScroll, pauseTimeout,
                userScrollTimeout>>

vars == <<mounted, selectedTournamentId, tournaments, tournamentData, isLoading,
          error, prevPositions, positionChanges, displayMode, isExporting,
          listReqs, dataReqs, pollInterval, decayTimer, exports,
          exportOutcome, rendered, countdownVars, clockVars, scrollVars>>

---------------------------------------------------------------------------
(* Bounds of the model *)

MaxDataInFlight == 2   \* snapshot requests in flight at once
MaxListInFlight == 2   \* tournament-list requests in flight at once
MaxExports == 2        \* exportToPDF invocations in flight at once
DecayTicks == 2        \* clock ticks the 2500 ms decay window is divided into
ClockReadings == 2     \* distinct readings of the wall clock
MaxCountdownTicks == 2 \* countdown ticks followed next to the other timers

(* Program constants *)

DecayDelayMs == 2500

TickMs == DecayDelayMs \div DecayTicks

---------------------------------------------------------------------------
(* Values *)

NoSelection == ""
NoError == ""
ListErrorMessage == "Fehler beim Laden der Turnierliste - bitte Seite neu laden"
DataErrorMessage == "Fehler beim Laden der Turnierdaten"

Null == <<>>
Some(v) == <<v>>
IsNull(o) == o = <<>>
Value(o) == o[1]

TimerOff == -1

TournamentIds == {"X", "Y"}
Teams == {"A", "B", "C"}

EmptyMap == [t \in {} |-> 0]

RemoveAt(s, i) == [j \in 1..(Len(s) - 1) |-> IF j < i THEN s[j] ELSE s[j + 1]]

(* What the page endpoint can answer: no tournament, or both. *)
InfoX == [_id |-> "X", date |-> 1]
InfoY == [_id |-> "Y", date |-> 2]
PageTournaments == {<<>>, <<InfoX, InfoY>>}

(* What the tournament endpoint can answer for tournament tid. *)
Standing(t) == [_id |-> t]
StandingsPool ==
    { <<Standing("A"), Standing("B"), Standing("C")>>,
      <<Standing("B"), Standing("A"), Standing("C")>>,
      <<Standing("A"), Standing("C")>> }
QualifyingPool == {<<>>} \cup {<<[standings |-> s]>> : s \in StandingsPool}
FinalRound == [name |-> "FINALS-1-1"]
EliminationsPool == {<<>>, <<[levels |-> <<FinalRound>>]>>}
Payloads(tid) ==
    { [name |-> tid, qualifying |-> q, eliminations |-> e] :
        q \in QualifyingPool, e \in EliminationsPool }
AllPayloads == UNION {Payloads(tid) : tid \in TournamentIds}

(* Group phase: snapshots that have no bracket yet. *)
GroupPhasePayloads == {p \in AllPayloads : p.eliminations = <<>>}

(* Snapshots without a qualifying group, with and without a bracket. *)
BracketPayloads == {p \in AllPayloads : p.qualifying = <<>>}

---------------------------------------------------------------------------
(* Derived values of a render *)

Snapshot == Value(tournamentData)

(* tournamentData?.eliminations?.some(e => e.levels && e.levels.length > 0) *)
HasEliminations ==
    /\ ~IsNull(tournamentData)
    /\ \E i \in 1..Len(Snapshot.eliminations) :
          Len(Snapshot.eliminations[i].levels) > 0

(* The ternary chain that picks the content of the results card. *)
MainContent ==
    IF error # NoError THEN "error"
    ELSE IF isLoading /\ IsNull(tournamentData) THEN "loading"
    ELSE displayMode

ExportButtonShown == HasEliminations

(* Variant: the button is never disabled. *)
ExportButtonDisabled_Never == FALSE

ExportButtonDisabled == isExporting

---------------------------------------------------------------------------
(* The auto-scroll effect of the standings table *)

(* The scroll container carries standingsScrollRef; it is in the document
   exactly when the standings branch of the main content is rendered. *)
ContainerShown == mounted /\ MainContent = "standings"

(* The closure of one run of the effect: its interval is live, isPaused and
   currentDirection are its locals, inDom tells whether the container the run
   captured is still in the document. *)
ScrollRun(direction) ==
    [currentDirection |-> direction, isPaused |-> FALSE, inDom |-> TRUE]

(* A render that changes none of scrollDirection, autoScrollEnabled and
   tournamentData: the effect does not run again, the live interval keeps its
   container even when the render removed that container from the document. *)
ScrollKept ==
    /\ autoScroll' = IF IsNull(autoScroll) THEN Null
                     ELSE Some([Value(autoScroll) EXCEPT
                                  !.inDom = @ /\ ContainerShown'])
    /\ UNCHANGED <<autoScrollEnabled, scrollDirection, pauseTimeout,
                   userScrollTimeout>>

(* The effect after a render that changed one of its dependencies, with the
   new values of autoScrollEnabled and scrollDirection: the cleanup of the
   previous run clears its interval and its pause timeout, then the body
   returns early without a container or with auto-scroll disabled, and
   otherwise starts a new interval. *)
ScrollEffect(enabled, direction) ==
    /\ autoScroll' = IF ContainerShown' /\ enabled
                     THEN Some(ScrollRun(direction)) ELSE Null
    /\ pauseTimeout' = FALSE
    /\ autoScrollEnabled' = enabled
    /\ scrollDirection' = direction

---------------------------------------------------------------------------
(* Position-change tracker *)

(* tournamentData?.qualifying?.[0]?.standings is there *)
HasStandings(p) == Len(p.qualifying) > 0
StandingsOf(p) == p.qualifying[1].standings

TeamIds(standings) == {standings[i]._id : i \in 1..Len(standings)}

(* Zero-based index forEach last passes for id (Map.set overwrites). *)
IndexOfTeam(standings, id) ==
    (CHOOSE i \in 1..Len(standings) :
        /\ standings[i]._id = id
        /\ \A j \in (i + 1)..Len(standings) : standings[j]._id # id) - 1

NewPositions(standings) ==
    [id \in TeamIds(standings) |-> IndexOfTeam(standings, id)]

(* Variant: the comparison of the new index with the old one is inverted. *)
ClassifyChange_Inverted(index, prev, id) ==
    IF id \in DOMAIN prev
    THEN IF index > prev[id] THEN "up"
         ELSE IF index < prev[id] THEN "down"
         ELSE "none"
    ELSE "none"

ClassifyChange(index, prev, id) ==
    IF id \in DOMAIN prev
    THEN IF index < prev[id] THEN "up"
         ELSE IF index > prev[id] THEN "down"
         ELSE "none"
    ELSE "none"

PositionChangesOf(prev, standings) ==
    [id \in TeamIds(standings) |->
        ClassifyChange(IndexOfTeam(standings, id), prev, id)]

(* The effect keyed on tournamentData?.qualifying, run after a snapshot p was
   stored: the previous run's cleanup clears its timeout, then the body runs. *)
TrackPositions(p) ==
    IF HasStandings(p)
    THEN /\ positionChanges' = PositionChangesOf(prevPositions, StandingsOf(p))
         /\ prevPositions' = NewPositions(StandingsOf(p))
         /\ decayTimer' = DecayTicks
    ELSE /\ positionChanges' = positionChanges
         /\ prevPositions' = prevPositions
         /\ decayTimer' = TimerOff

---------------------------------------------------------------------------
(* Requests *)

DataRequest(tid) == [tid |-> tid, superseded |-> FALSE]

(* Bookkeeping: when request i is applied, every request for the same
   tournament initiated before it is marked as overtaken. *)
MarkSuperseded(reqs, i) ==
    [j \in 1..Len(reqs) |->
        IF j < i /\ reqs[j].tid = reqs[i].tid
        THEN [reqs[j] EXCEPT !.superseded = TRUE]
        ELSE reqs[j]]

(* [...data.tournaments].sort((a, b) => date(b) - date(a))[0]._id *)
LatestTournament(lst) ==
    lst[CHOOSE i \in 1..Len(lst) :
            /\ \A j \in 1..Len(lst) : lst[j].date <= lst[i].date
            /\ \A j \in 1..(i - 1) : lst[j].date < lst[i].date]._id

(* Variant: the interval of the previous selection is not cleared. *)
SelectionEffects_KeepsOldInterval(t, pendingList) ==
    /\ Len(pendingList) < MaxListInFlight
    /\ Len(dataReqs) < MaxDataInFlight
    /\ selectedTournamentId' = t
    /\ listReqs' = Append(pendingList, t)
    /\ isLoading' = TRUE
    /\ dataReqs' = Append(dataReqs, DataRequest(t))
    /\ pollInterval' = IF pollInterval = NoSelection THEN t ELSE pollInterval

(* The effects that run after selectedTournamentId changed to t (t # ''):
   fetchTournamentsList got a new identity, so the list effect runs again;
   the poll effect drops the old interval, fetches and starts a new one. *)
SelectionEffects(t, pendingList) ==
    /\ Len(pendingList) < MaxListInFlight
    /\ Len(dataReqs) < MaxDataInFlight
    /\ selectedTournamentId' = t
    /\ listReqs' = Append(pendingList, t)
    /\ isLoading' = TRUE
    /\ dataReqs' = Append(dataReqs, DataRequest(t))
    /\ pollInterval' = t

---------------------------------------------------------------------------
(* The timers right after the first render and its effects: the countdown is
   configured to ten minutes and stopped, so its effect starts no interval;
   the clock effect has started its interval; no scroll timeout is pending. *)

InitialSeconds == 600   \* 10 * 60 seconds

TimersAtMount ==
    /\ time = InitialSeconds
    /\ isRunning = FALSE
    /\ initialTime = InitialSeconds
    /\ customMinutes = ""
    /\ customSeconds = ""
    /\ countdownInterval = FALSE
    /\ currentTime = 0
    /\ clockInterval = TRUE
    /\ autoScrollEnabled = TRUE
    /\ scrollDirection = "down"
    /\ pauseTimeout = FALSE
    /\ userScrollTimeout = FALSE

---------------------------------------------------------------------------
(* Initial state: the component has mounted; the list effect has issued the
   first list request (closure: no selection), the poll effect returned early. *)

Init ==
    /\ mounted = TRUE
    /\ selectedTournamentId = NoSelection
    /\ tournaments = <<>>
    /\ tournamentData = Null
    /\ isLoading = TRUE
    /\ error = NoError
    /\ prevPositions = EmptyMap
    /\ positionChanges = EmptyMap
    /\ displayMode = "standings"
    /\ isExporting = FALSE
    /\ listReqs = <<NoSelection>>
    /\ dataReqs = <<>>
    /\ pollInterval = NoSelection
    /\ decayTimer = TimerOff
    /\ exports = <<>>
    /\ exportOutcome = Null
    /\ rendered = Null
    /\ TimersAtMount
    /\ autoScroll = Null

---------------------------------------------------------------------------
(* fetchTournamentsList: the response of list request i is lst *)

(* Variant: every list response selects the latest tournament. *)
ListFetchOk_AlwaysSelects(i, lst) ==
    /\ i \in 1..Len(listReqs)
    /\ lst \in PageTournaments
    /\ tournaments' = lst
    /\ error' = NoError
    /\ LET rest == RemoveAt(listReqs, i)
           select == Len(lst) > 0
       IN  IF select /\ mounted /\ LatestTournament(lst) # selectedTournamentId
           THEN SelectionEffects(LatestTournament(lst), rest)
           ELSE /\ selectedTournamentId' =
                      IF select THEN LatestTournament(lst) ELSE selectedTournamentId
                /\ listReqs' = rest
                /\ UNCHANGED <<isLoading, dataReqs, pollInterval>>
    /\ UNCHANGED <<mounted, tournamentData, prevPositions, positionChanges,
                   displayMode, isExporting, decayTimer, exports,
                   exportOutcome>>
    /\ UNCHANGED rendered
    /\ UNCHANGED <<countdownVars, clockVars>>
    /\ ScrollKept

ListFetchOk(i, lst) ==
    /\ i \in 1..Len(listReqs)
    /\ lst \in PageTournaments
    /\ tournaments' = lst
    /\ error' = NoError
    /\ LET closure == listReqs[i]
           rest == RemoveAt(listReqs, i)
           select == Len(lst) > 0 /\ closure = NoSelection
       IN  IF select /\ mounted /\ LatestTournament(lst) # selectedTournamentId
           THEN SelectionEffects(LatestTournament(lst), rest)
           ELSE /\ selectedTournamentId' =
                      IF select THEN LatestTournament(lst) ELSE selectedTournamentId
                /\ listReqs' = rest
                /\ UNCHANGED <<isLoading, dataReqs, pollInterval>>
    /\ UNCHANGED <<mounted, tournamentData, prevPositions, positionChanges,
                   displayMode, isExporting, decayTimer, exports,
                   exportOutcome>>
    /\ UNCHANGED rendered
    /\ UNCHANGED <<countdownVars, clockVars>>
    /\ ScrollKept

(* fetchTournamentsList: list request i fails (network, status, JSON) *)
ListFetchFail(i) ==
    /\ i \in 1..Len(listReqs)
    /\ error' = ListErrorMessage
    /\ listReqs' = RemoveAt(listReqs, i)
    /\ UNCHANGED <<mounted, selectedTournamentId, tournaments, tournamentData,
                   isLoading, prevPositions, positionChanges, displayMode,
                   isExporting, dataReqs, pollInterval, decayTimer,
                   exports, exportOutcome>>
    /\ UNCHANGED rendered
    /\ UNCHANGED <<countdownVars, clockVars>>
    /\ ScrollKept

(* Variant: a selection change drops the held snapshot. *)
SelectTournament_DropsSnapshot(t) ==
    /\ mounted
    /\ \E i \in 1..Len(tournaments) : tournaments[i]._id = t
    /\ t # selectedTournamentId
    /\ SelectionEffects(t, listReqs)
    /\ tournamentData' = Null
    /\ UNCHANGED <<mounted, tournaments, error, prevPositions,
                   positionChanges, displayMode, isExporting, decayTimer, exports, exportOutcome>>
    /\ UNCHANGED rendered
    /\ UNCHANGED <<countdownVars, clockVars>>
    /\ ScrollKept

(* The tournament dropdown's onChange *)
SelectTournament(t) ==
    /\ mounted
    /\ \E i \in 1..Len(tournaments) : tournaments[i]._id = t
    /\ t # selectedTournamentId
    /\ SelectionEffects(t, listReqs)
    /\ UNCHANGED <<mounted, tournaments, tournamentData, error, prevPositions,
                   positionChanges, displayMode, isExporting, decayTimer, exports, exportOutcome>>
    /\ UNCHANGED rendered
    /\ UNCHANGED <<countdownVars, clockVars>>
    /\ ScrollKept

---------------------------------------------------------------------------
(* fetchTournamentData *)

(* The interval callback: fetchTournamentData of the render that set it up. *)
PollFire ==
    /\ pollInterval # NoSelection
    /\ Len(dataReqs) < MaxDataInFlight
    /\ dataReqs' = Append(dataReqs, DataRequest(pollInterval))
    /\ UNCHANGED <<mounted, selectedTournamentId, tournaments, tournamentData,
                   isLoading, error, prevPositions, positionChanges, displayMode,
                   isExporting, listReqs, pollInterval, decayTimer,
                   exports, exportOutcome>>
    /\ UNCHANGED rendered
    /\ UNCHANGED <<countdownVars, clockVars>>
    /\ ScrollKept

(* The refresh button's onClick *)
RefreshClick ==
    /\ mounted
    /\ selectedTournamentId # NoSelection
    /\ Len(dataReqs) < MaxDataInFlight
    /\ dataReqs' = Append(dataReqs, DataRequest(selectedTournamentId))
    /\ UNCHANGED <<mounted, selectedTournamentId, tournaments, tournamentData,
                   isLoading, error, prevPositions, positionChanges, displayMode,
                   isExporting, listReqs, pollInterval, decayTimer,
                   exports, exportOutcome>>
    /\ UNCHANGED rendered
    /\ UNCHANGED <<countdownVars, clockVars>>
    /\ ScrollKept

(* Variant: a successful fetch stores the snapshot but leaves the error. *)
FetchDataOk_KeepsError(i, p) ==
    /\ i \in 1..Len(dataReqs)
    /\ p \in Payloads(dataReqs[i].tid)
    /\ tournamentData' = Some(p)
    /\ isLoading' = FALSE
    /\ dataReqs' = RemoveAt(MarkSuperseded(dataReqs, i), i)
    /\ IF mounted
       THEN TrackPositions(p)
       ELSE UNCHANGED <<positionChanges, prevPositions, decayTimer>>
    /\ UNCHANGED <<mounted, selectedTournamentId, tournaments, displayMode, error,
                   isExporting, listReqs, pollInterval, exports, exportOutcome>>
    /\ UNCHANGED rendered
    /\ UNCHANGED <<countdownVars, clockVars>>
    /\ IF mounted
       THEN /\ ScrollEffect(autoScrollEnabled, scrollDirection)
            /\ UNCHANGED userScrollTimeout
       ELSE UNCHANGED scrollVars

(* The response of snapshot request i arrives and parses to payload p. *)
FetchDataOk(i, p) ==
    /\ i \in 1..Len(dataReqs)
    /\ p \in Payloads(dataReqs[i].tid)
    /\ tournamentData' = Some(p)
    /\ error' = NoError
    /\ isLoading' = FALSE
    /\ dataReqs' = RemoveAt(MarkSuperseded(dataReqs, i), i)
    /\ IF mounted
       THEN TrackPositions(p)
       ELSE UNCHANGED <<positionChanges, prevPositions, decayTimer>>
    /\ UNCHANGED <<mounted, selectedTournamentId, tournaments, displayMode,
                   isExporting, listReqs, pollInterval, exports, exportOutcome>>
    /\ UNCHANGED rendered
    /\ UNCHANGED <<countdownVars, clockVars>>
    /\ IF mounted
       THEN /\ ScrollEffect(autoScrollEnabled, scrollDirection)
            /\ UNCHANGED userScrollTimeout
       ELSE UNCHANGED scrollVars

(* Variant: a failed fetch also drops the held snapshot. *)
FetchDataFail_ClearsSnapshot(i) ==
    /\ i \in 1..Len(dataReqs)
    /\ error' = DataErrorMessage
    /\ isLoading' = FALSE
    /\ tournamentData' = Null
    /\ dataReqs' = RemoveAt(dataReqs, i)
    /\ UNCHANGED <<mounted, selectedTournamentId, tournaments,
                   prevPositions, positionChanges, displayMode, isExporting,
                   listReqs, pollInterval, decayTimer, exports,
                   exportOutcome>>
    /\ UNCHANGED rendered
    /\ UNCHANGED <<countdownVars, clockVars>>
    /\ ScrollKept

(* Snapshot request i fails: network error, !response.ok, or json() throws. *)
FetchDataFail(i) ==
    /\ i \in 1..Len(dataReqs)
    /\ error' = DataErrorMessage
    /\ isLoading' = FALSE
    /\ dataReqs' = RemoveAt(dataReqs, i)
    /\ UNCHANGED <<mounted, selectedTournamentId, tournaments, tournamentData,
                   prevPositions, positionChanges, displayMode, isExporting,
                   listReqs, pollInterval, decayTimer, exports,
                   exportOutcome>>
    /\ UNCHANGED rendered
    /\ UNCHANGED <<countdownVars, clockVars>>
    /\ ScrollKept

---------------------------------------------------------------------------
(* Time and the decay timeout *)

(* One clock tick of the pending decay timeout passes. *)
Tick ==
    /\ decayTimer > 0
    /\ decayTimer' = decayTimer - 1
    /\ UNCHANGED <<mounted, selectedTournamentId, tournaments, tournamentData,
                   isLoading, error, prevPositions, positionChanges, displayMode,
                   isExporting, listReqs, dataReqs, pollInterval, exports,
                   exportOutcome>>
    /\ UNCHANGED rendered
    /\ UNCHANGED <<countdownVars, clockVars>>
    /\ ScrollKept

(* The setTimeout callback of the tracker effect: setPositionChanges(new Map()) *)
DecayFire ==
    /\ decayTimer = 0
    /\ positionChanges' = EmptyMap
    /\ decayTimer' = TimerOff
    /\ UNCHANGED <<mounted, selectedTournamentId, tournaments, tournamentData,
                   isLoading, error, prevPositions, displayMode, isExporting,
                   listReqs, dataReqs, pollInterval, exports,
                   exportOutcome>>
    /\ UNCHANGED rendered
    /\ UNCHANGED <<countdownVars, clockVars>>
    /\ ScrollKept

---------------------------------------------------------------------------
(* The mode toggle, rendered when hasEliminations *)

SetDisplayMode(m) ==
    /\ mounted
    /\ HasEliminations
    /\ m \in {"standings", "bracket", "results"}
    /\ m # displayMode
    /\ displayMode' = m
    /\ UNCHANGED <<mounted, selectedTournamentId, tournaments, tournamentData,
                   isLoading, error, prevPositions, positionChanges, isExporting,
                   listReqs, dataReqs, pollInterval, decayTimer,
                   exports, exportOutcome>>
    /\ UNCHANGED rendered
    /\ UNCHANGED <<countdownVars, clockVars>>
    /\ ScrollKept

---------------------------------------------------------------------------
(* exportToPDF *)

(* The regions in capture order: resultsRef, bracketRef, standingsRef. *)
Regions == <<"results", "bracket", "standings">>

(* The three hidden containers are rendered unconditionally, so a ref is
   attached exactly while the component is mounted. *)
RefAttached(k) == mounted

(* new jsPDF('p', 'mm', 'a4') opens the document with its first page. *)
NewPdf == <<"blank">>
AddPage(pdf) == Append(pdf, "blank")
AddImage(pdf, region) == [pdf EXCEPT ![Len(pdf)] = region]

(* The first region from k on whose `if (ref.current)` passes; 0 when none. *)
NextRegion(k) ==
    IF \E j \in k..Len(Regions) : RefAttached(j)
    THEN CHOOSE j \in k..Len(Regions) :
            RefAttached(j) /\ \A h \in k..(j - 1) : ~RefAttached(h)
    ELSE 0

(* Pages 2 and 3 are added before their capture starts, page 1 is there. *)
PdfEntering(pdf, k) == IF k > 1 THEN AddPage(pdf) ELSE pdf

(* The export button's onClick, up to the first await (the button is rendered
   when hasEliminations and is disabled while isExporting). *)
ExportClick ==
    /\ mounted
    /\ ExportButtonShown
    /\ ~ExportButtonDisabled
    /\ ~IsNull(tournamentData)
    /\ Len(exports) < MaxExports
    /\ isExporting' = TRUE
    /\ exports' = Append(exports,
          [region |-> NextRegion(1), pdf |-> PdfEntering(NewPdf, NextRegion(1)),
           captured |-> {}])
    /\ UNCHANGED <<mounted, selectedTournamentId, tournaments, tournamentData,
                   isLoading, error, prevPositions, positionChanges, displayMode,
                   listReqs, dataReqs, pollInterval, decayTimer,
                   exportOutcome>>
    /\ UNCHANGED rendered
    /\ UNCHANGED <<countdownVars, clockVars>>
    /\ ScrollKept

(* Variant: the flag is released after pdf.save only, not in a finally. *)
ExportFinally_NoRelease(outcome, n) ==
    /\ exportOutcome' = Some(outcome)
    /\ isExporting' = IF outcome.saved THEN FALSE ELSE isExporting
    /\ exports' = RemoveAt(exports, n)

(* The catch and finally blocks of exportToPDF. *)
ExportFinally(outcome, n) ==
    /\ exportOutcome' = Some(outcome)
    /\ isExporting' = FALSE
    /\ exports' = RemoveAt(exports, n)

(* html2canvas of export n resolves: the image goes on the current page, then
   the next attached region is entered or, after the last, pdf.save runs
   (saveThrows: document assembly throws). *)
CaptureResolved(n, saveThrows) ==
    /\ n \in 1..Len(exports)
    /\ saveThrows \in BOOLEAN
    /\ LET e == exports[n]
           pdf == AddImage(e.pdf, Regions[e.region])
           captured == e.captured \cup {e.region}
           next == NextRegion(e.region + 1)
       IN  IF next # 0
           THEN /\ exports' = [exports EXCEPT ![n] =
                      [region |-> next, pdf |-> PdfEntering(pdf, next),
                       captured |-> captured]]
                /\ UNCHANGED <<isExporting, exportOutcome>>
           ELSE ExportFinally([saved |-> ~saveThrows, pdf |-> pdf,
                               captured |-> captured, failed |-> {}], n)
    /\ UNCHANGED <<mounted, selectedTournamentId, tournaments, tournamentData,
                   isLoading, error, prevPositions, positionChanges, displayMode,
                   listReqs, dataReqs, pollInterval, decayTimer>>
    /\ UNCHANGED rendered
    /\ UNCHANGED <<countdownVars, clockVars>>
    /\ ScrollKept

(* html2canvas of export n rejects (or toDataURL / addImage throws). *)
CaptureRejected(n) ==
    /\ n \in 1..Len(exports)
    /\ LET e == exports[n]
       IN  ExportFinally([saved |-> FALSE, pdf |-> e.pdf, captured |-> e.captured,
                          failed |-> {e.region}], n)
    /\ UNCHANGED <<mounted, selectedTournamentId, tournaments, tournamentData,
                   isLoading, error, prevPositions, positionChanges, displayMode,
                   listReqs, dataReqs, pollInterval, decayTimer>>
    /\ UNCHANGED rendered
    /\ UNCHANGED <<countdownVars, clockVars>>
    /\ ScrollKept

---------------------------------------------------------------------------
(* Teardown: the effect cleanups clear the poll interval and the decay
   timeout and the refs detach.  Pending fetch and export continuations still
   run and still call the state setters, which the model records. *)

Unmount ==
    /\ mounted
    /\ mounted' = FALSE
    /\ pollInterval' = NoSelection
    /\ decayTimer' = TimerOff
    /\ UNCHANGED <<selectedTournamentId, tournaments, tournamentData, isLoading,
                   error, prevPositions, positionChanges, displayMode,
                   isExporting, listReqs, dataReqs, exports,
                   exportOutcome>>
    /\ UNCHANGED rendered
    /\ countdownInterval' = FALSE
    /\ clockInterval' = FALSE
    /\ autoScroll' = Null
    /\ pauseTimeout' = FALSE
    /\ UNCHANGED <<time, isRunning, initialTime, customMinutes, customSeconds,
                   currentTime, autoScrollEnabled, scrollDirection,
                   userScrollTimeout>>

---------------------------------------------------------------------------
(* The countdown timer *)

PresetMinutes == {8, 10}

(* Values the two number inputs can hand to their onChange handlers. *)
MinuteInputs == {"", "0", "1", "-1", "1.5"}
SecondInputs == {"", "2", "-1", "07"}

DigitChars == "0123456789"

IsDigit(c) == \E d \in 1..10 : SubSeq(DigitChars, d, d) = c

DigitValue(c) == (CHOOSE d \in 1..10 : SubSeq(DigitChars, d, d) = c) - 1

RECURSIVE SkipSpaces(_, _)
SkipSpaces(s, i) ==
    IF i <= Len(s) /\ SubSeq(s, i, i) = " " THEN SkipSpaces(s, i + 1) ELSE i

RECURSIVE DigitRun(_, _, _)
(* The value of the decimal digits of s from position i on, up to the first
   character that is not a digit; Null when there is no digit at i. *)
DigitRun(s, i, acc) ==
    IF i <= Len(s) /\ IsDigit(SubSeq(s, i, i))
    THEN DigitRun(s, i + 1, Some(10 * (IF IsNull(acc) THEN 0 ELSE Value(acc))
                                 + DigitValue(SubSeq(s, i, i))))
    ELSE acc

(* parseInt(s) in radix 10: leading white space, an optional sign, then the
   longest run of digits; NaN (Null here) when that run is empty. *)
ParseInt(s) ==
    LET start == SkipSpaces(s, 1)
        signed == start <= Len(s) /\ SubSeq(s, start, start) \in {"+", "-"}
        negative == signed /\ SubSeq(s, start, start) = "-"
        digits == DigitRun(s, IF signed THEN start + 1 ELSE start, Null)
    IN  IF IsNull(digits) THEN Null
        ELSE IF negative THEN Some(0 - Value(digits))
        ELSE digits

(* parseInt(s) || 0: NaN and 0 are falsy. *)
ParseIntOrZero(s) ==
    LET n == ParseInt(s)
    IN  IF IsNull(n) \/ Value(n) = 0 THEN 0 ELSE Value(n)

TotalSeconds == ParseIntOrZero(customMinutes) * 60 + ParseIntOrZero(customSeconds)

(* Variant: the effect never stops the timer. *)
CountdownEffect_NoStopAtZero(t, r) ==
    /\ time' = t
    /\ IF t = time /\ r = isRunning
       THEN UNCHANGED <<isRunning, countdownInterval>>
       ELSE /\ isRunning' = r
            /\ countdownInterval' = (r /\ t > 0)

(* A render with time t and isRunning r, followed by the countdown effect
   when one of the two changed: the cleanup clears the interval, the body
   starts a new one while running with time left, and at time 0 it calls
   setIsRunning(false), whose render runs the effect once more. *)
CountdownEffect(t, r) ==
    /\ time' = t
    /\ IF t = time /\ r = isRunning
       THEN UNCHANGED <<isRunning, countdownInterval>>
       ELSE /\ isRunning' = IF r /\ t > 0 THEN r
                            ELSE IF t = 0 THEN FALSE
                            ELSE r
            /\ countdownInterval' = (r /\ t > 0)

(* The timer section with the countdown controls is rendered in every
   display mode but results. *)
TimerSectionShown == mounted /\ displayMode # "results"

(* The state the countdown actions leave alone. *)
DisplayKept ==
    /\ UNCHANGED <<mounted, selectedTournamentId, tournaments, tournamentData,
                   isLoading, error, prevPositions, positionChanges, displayMode,
                   isExporting, listReqs, dataReqs, pollInterval, decayTimer,
                   exports, exportOutcome, rendered>>

ToggleTimer ==
    /\ TimerSectionShown
    /\ CountdownEffect(time, ~isRunning)
    /\ UNCHANGED <<initialTime, customMinutes, customSeconds>>
    /\ DisplayKept
    /\ UNCHANGED <<clockVars, scrollVars>>

ResetTimer ==
    /\ TimerSectionShown
    /\ CountdownEffect(initialTime, FALSE)
    /\ UNCHANGED <<initialTime, customMinutes, customSeconds>>
    /\ DisplayKept
    /\ UNCHANGED <<clockVars, scrollVars>>

SetPresetTime(minutes) ==
    /\ TimerSectionShown
    /\ CountdownEffect(minutes * 60, FALSE)
    /\ initialTime' = minutes * 60
    /\ customMinutes' = ""
    /\ customSeconds' = ""
    /\ DisplayKept
    /\ UNCHANGED <<clockVars, scrollVars>>

(* onChange of the minutes input *)
SetCustomMinutes(v) ==
    /\ TimerSectionShown
    /\ customMinutes' = v
    /\ UNCHANGED <<time, isRunning, initialTime, customSeconds, countdownInterval>>
    /\ DisplayKept
    /\ UNCHANGED <<clockVars, scrollVars>>

(* onChange of the seconds input *)
SetCustomSeconds(v) ==
    /\ TimerSectionShown
    /\ customSeconds' = v
    /\ UNCHANGED <<time, isRunning, initialTime, customMinutes, countdownInterval>>
    /\ DisplayKept
    /\ UNCHANGED <<clockVars, scrollVars>>

SetCustomTime ==
    /\ TimerSectionShown
    /\ IF TotalSeconds > 0
       THEN /\ CountdownEffect(TotalSeconds, FALSE)
            /\ initialTime' = TotalSeconds
       ELSE UNCHANGED <<time, isRunning, initialTime, countdownInterval>>
    /\ UNCHANGED <<customMinutes, customSeconds>>
    /\ DisplayKept
    /\ UNCHANGED <<clockVars, scrollVars>>

(* The countdown interval fires: setTime(prevTime => prevTime - 1). *)
CountdownTick ==
    /\ countdownInterval
    /\ CountdownEffect(time - 1, isRunning)
    /\ UNCHANGED <<initialTime, customMinutes, customSeconds>>
    /\ DisplayKept
    /\ UNCHANGED <<clockVars, scrollVars>>

CountdownNext ==
    \/ ToggleTimer
    \/ ResetTimer
    \/ \E minutes \in PresetMinutes : SetPresetTime(minutes)
    \/ \E v \in MinuteInputs : SetCustomMinutes(v)
    \/ \E v \in SecondInputs : SetCustomSeconds(v)
    \/ SetCustomTime
    \/ CountdownTick

CountdownSpec == Init /\ [][CountdownNext]_vars

---------------------------------------------------------------------------
(* The wall clock *)

(* The clock interval fires: setCurrentTime(new Date()). *)
ClockTick ==
    /\ clockInterval
    /\ currentTime' = (currentTime + 1) % ClockReadings
    /\ UNCHANGED clockInterval
    /\ DisplayKept
    /\ UNCHANGED <<countdownVars, scrollVars>>

---------------------------------------------------------------------------
(* Auto-scroll of the standings table *)

OtherDirection(direction) == IF direction = "down" THEN "up" ELSE "down"

(* The 50 ms interval of the live effect run fires.  What the callback reads
   from the container is an input: scrollable says scrollHeight exceeds
   clientHeight, atEnd says scrollTop has reached the end of the run's
   direction.  A container that left the document has no height. *)
AutoScrollTick(scrollable, atEnd) ==
    /\ ~IsNull(autoScroll)
    /\ LET run == Value(autoScroll)
       IN  IF run.isPaused \/ ~(run.inDom /\ scrollable) \/ ~atEnd
           THEN UNCHANGED <<autoScroll, pauseTimeout>>
           ELSE /\ autoScroll' = Some([run EXCEPT !.isPaused = TRUE])
                /\ pauseTimeout' = TRUE
    /\ UNCHANGED <<autoScrollEnabled, scrollDirection, userScrollTimeout>>
    /\ DisplayKept
    /\ UNCHANGED <<countdownVars, clockVars>>

(* The 2000 ms pause timeout fires: the run turns around and calls
   setScrollDirection, after whose render the effect runs again. *)
PauseTimeoutFire ==
    /\ pauseTimeout
    /\ DisplayKept
    /\ ScrollEffect(autoScrollEnabled,
                    OtherDirection(Value(autoScroll).currentDirection))
    /\ UNCHANGED userScrollTimeout
    /\ UNCHANGED <<countdownVars, clockVars>>

(* handleUserScroll: a wheel or touchmove event on the container the live
   run added its listeners to.  It disables auto-scroll, replaces the pending
   resume timeout by a new one, and the effect runs again. *)
HandleUserScroll ==
    /\ ~IsNull(autoScroll)
    /\ Value(autoScroll).inDom
    /\ DisplayKept
    /\ ScrollEffect(FALSE, scrollDirection)
    /\ userScrollTimeout' = TRUE
    /\ UNCHANGED <<countdownVars, clockVars>>

(* The 10000 ms resume timeout fires: setAutoScrollEnabled(true); while the
   component is mounted the effect runs again. *)
UserScrollTimeoutFire ==
    /\ userScrollTimeout
    /\ userScrollTimeout' = FALSE
    /\ DisplayKept
    /\ IF mounted
       THEN ScrollEffect(TRUE, scrollDirection)
       ELSE /\ autoScrollEnabled' = TRUE
            /\ UNCHANGED <<scrollDirection, autoScroll, pauseTimeout>>
    /\ UNCHANGED <<countdownVars, clockVars>>

(* The display with all its timers, from mount to teardown and after. *)
TimersNext ==
    \/ \E i \in 1..MaxListInFlight : ListFetchOk(i, <<InfoX, InfoY>>)
    \/ \E i \in 1..MaxDataInFlight, p \in GroupPhasePayloads : FetchDataOk(i, p)
    \/ \E i \in 1..MaxDataInFlight : FetchDataFail(i)
    \/ PollFire
    \/ Tick
    \/ DecayFire
    \/ ClockTick
    \/ ToggleTimer
    \/ (time > InitialSeconds - MaxCountdownTicks /\ CountdownTick)
    \/ \E scrollable \in BOOLEAN, atEnd \in BOOLEAN : AutoScrollTick(scrollable, atEnd)
    \/ PauseTimeoutFire
    \/ HandleUserScroll
    \/ UserScrollTimeoutFire
    \/ Unmount

TimersSpec == Init /\ [][TimersNext]_vars

---------------------------------------------------------------------------

ExportStep ==
    \/ \E n \in 1..MaxExports, saveThrows \in BOOLEAN : CaptureResolved(n, saveThrows)
    \/ \E n \in 1..MaxExports : CaptureRejected(n)

(* The display: list and snapshot fetching, polling, the tracker, teardown. *)
Next ==
    \/ \E i \in 1..MaxListInFlight, lst \in PageTournaments : ListFetchOk(i, lst)
    \/ \E i \in 1..MaxListInFlight : ListFetchFail(i)
    \/ \E t \in TournamentIds : SelectTournament(t)
    \/ PollFire
    \/ RefreshClick
    \/ \E i \in 1..MaxDataInFlight, p \in GroupPhasePayloads : FetchDataOk(i, p)
    \/ \E i \in 1..MaxDataInFlight : FetchDataFail(i)
    \/ Tick
    \/ DecayFire
    \/ Unmount

Spec == Init /\ [][Next]_vars

(* The export, running while snapshots of the selected tournament keep
   arriving or failing. *)
ExportNext ==
    \/ \E i \in 1..MaxListInFlight, lst \in PageTournaments : ListFetchOk(i, lst)
    \/ \E i \in 1..MaxDataInFlight, p \in BracketPayloads : FetchDataOk(i, p)
    \/ \E i \in 1..MaxDataInFlight : FetchDataFail(i)
    \/ RefreshClick
    \/ \E m \in {"standings", "bracket", "results"} : SetDisplayMode(m)
    \/ ExportClick
    \/ ExportStep
    \/ Unmount

ExportSpec == Init /\ [][ExportNext]_vars

(* Every html2canvas promise settles and its continuation is run. *)
FairExportSpec == ExportSpec /\ WF_vars(ExportStep)

---------------------------------------------------------------------------
(* Properties *)

DataReqIndex == 1..MaxDataInFlight
ViewModes == {"standings", "bracket", "results"}

(* C1: a snapshot response is applied only when it is for the tournament
   that is selected at its arrival; a response for a tournament that is no
   longer selected is dropped. *)
C1_StaleFetchDrop ==
    [][\A i \in DataReqIndex, p \in AllPayloads :
          FetchDataOk(i, p) => dataReqs[i].tid = selectedTournamentId]_vars

(* C2: a failing snapshot fetch leaves the held snapshot as it was and sets
   a non-empty error. *)
C2_FailureKeepsSnapshot ==
    [][\A i \in DataReqIndex :
          FetchDataFail(i) =>
              /\ tournamentData' = tournamentData
              /\ error' # NoError]_vars

(* C2 witness: a fetch has failed while a snapshot was held. *)
C2_Witness ==
    /\ error = DataErrorMessage
    /\ ~IsNull(tournamentData)

(* C3: with a snapshot held and a fetch error set, the results card still
   shows one of the snapshot's views (the banner does not replace them). *)
C3_StaleViewsStayRendered ==
    (mounted /\ ~IsNull(tournamentData) /\ error = DataErrorMessage)
        => MainContent \in ViewModes

(* C4: a succeeding snapshot fetch makes the snapshot exactly the payload
   received and clears the error, whichever error was set. *)
C4_SuccessReplacesAndClears ==
    [][\A i \in DataReqIndex, p \in AllPayloads :
          FetchDataOk(i, p) =>
              /\ tournamentData' = Some(p)
              /\ error' = NoError]_vars

(* C4 witness: a snapshot without a qualifying group is held, error-free,
   after a snapshot with standings had been held before it. *)
C4_Witness ==
    /\ ~IsNull(tournamentData)
    /\ Snapshot.qualifying = <<>>
    /\ DOMAIN prevPositions # {}
    /\ error = NoError
    /\ ~isLoading

(* C5: the response of a request is not applied once the response of a
   later-initiated request for the same tournament has been applied. *)
C5_NoRegression ==
    [][\A i \in DataReqIndex, p \in AllPayloads :
          FetchDataOk(i, p) => ~dataReqs[i].superseded]_vars

(* C6: at most one export is in flight, the flag is set exactly while one
   is, and while it is set the export trigger is not accepted. *)
C6_ExportSingleFlight ==
    /\ Len(exports) <= 1
    /\ isExporting <=> Len(exports) = 1
    /\ isExporting => ~ENABLED ExportClick

(* C6 witness: an export is in flight while the export button is on screen. *)
C6_Witness ==
    /\ mounted
    /\ ExportButtonShown
    /\ isExporting
    /\ Len(exports) = 1

ExportFailedStep ==
    /\ Len(exports') < Len(exports)
    /\ ~Value(exportOutcome').saved

(* C7: an export that set the flag eventually clears it; a failing export
   changes neither the snapshot nor the error and leaves the button enabled. *)
C7_ExportReleasesFlag ==
    /\ isExporting ~> ~isExporting
    /\ [][ExportFailedStep =>
              /\ tournamentData' = tournamentData
              /\ error' = error
              /\ ~isExporting'
              /\ ~ExportButtonDisabled']_vars

(* C7 witness: after a failed export a new export is in flight. *)
C7_Witness ==
    /\ ~IsNull(exportOutcome)
    /\ ~Value(exportOutcome).saved
    /\ isExporting

(* The regions of set c as pages, in capture order. *)
PagesOf(c) ==
    SelectSeq(Regions, LAMBDA r : \E k \in c : Regions[k] = r)

(* C8: an export in which the capture of a region failed still saves the
   document, with one page per captured region and no blank page. *)
C8_CaptureFailureSkipsPage ==
    (~IsNull(exportOutcome) /\ Value(exportOutcome).failed # {})
        => /\ Value(exportOutcome).saved
           /\ Value(exportOutcome).pdf = PagesOf(Value(exportOutcome).captured)

(* The zero-based place of team t in standings s, -1 when it is not in it. *)
PlaceIn(s, t) ==
    IF \E k \in 1..Len(s) : s[k]._id = t
    THEN (CHOOSE k \in 1..Len(s) : s[k]._id = t) - 1
    ELSE -1

(* The place of t in the standings that preceded this update: those of the
   held snapshot, or else the baseline the tracker kept from before. *)
PrecedingPlace(t) ==
    IF ~IsNull(tournamentData) /\ HasStandings(Snapshot)
    THEN PlaceIn(StandingsOf(Snapshot), t)
    ELSE IF t \in DOMAIN prevPositions THEN prevPositions[t] ELSE -1

ExpectedTag(new, old) ==
    IF old = -1 THEN "none"
    ELSE IF new < old THEN "up"
    ELSE IF new > old THEN "down"
    ELSE "none"

ExampleBefore == <<Standing("A"), Standing("B"), Standing("C")>>
ExampleAfter == <<Standing("B"), Standing("A"), Standing("C")>>

(* C9: on a standings update every team of the new standings is tagged by
   comparing its new place with its place in the preceding standings (none
   when it had no place there), the new places become the baseline, and
   [A,B,C] then [B,A,C] gives A down, B up, C none. *)
C9_PositionTracking ==
    [][\A i \in DataReqIndex, p \in AllPayloads :
          (mounted /\ FetchDataOk(i, p) /\ HasStandings(p)) =>
              LET new == StandingsOf(p) IN
              /\ DOMAIN positionChanges' = TeamIds(new)
              /\ \A t \in TeamIds(new) :
                    positionChanges'[t] =
                        ExpectedTag(PlaceIn(new, t), PrecedingPlace(t))
              /\ DOMAIN prevPositions' = TeamIds(new)
              /\ \A t \in TeamIds(new) : prevPositions'[t] = PlaceIn(new, t)
              /\ (/\ ~IsNull(tournamentData)
                  /\ Snapshot.qualifying = <<[standings |-> ExampleBefore]>>
                  /\ new = ExampleAfter)
                    => positionChanges' = [t \in Teams |->
                          IF t = "A" THEN "down"
                          ELSE IF t = "B" THEN "up" ELSE "none"]]_vars

(* C9 witness: the tracker holds A down, B up, C none. *)
C9_Witness ==
    /\ DOMAIN positionChanges = Teams
    /\ positionChanges["A"] = "down"
    /\ positionChanges["B"] = "up"
    /\ positionChanges["C"] = "none"
    /\ DOMAIN prevPositions = Teams
    /\ prevPositions["B"] = 0

(* C10: whenever change tags are set, the decay timeout that will clear
   them is pending, whatever snapshot arrived since. *)
C10_TagsAlwaysDecay ==
    (mounted /\ DOMAIN positionChanges # {}) => decayTimer # TimerOff

---------------------------------------------------------------------------
(* View derivation: the standings view                                     *)
(*                                                                         *)
(* The snapshots of the view specifications carry rounds and matches.  A   *)
(* team that is not resolved has the empty name; tables: null is the empty *)
(* sequence; a group's missing rounds or levels are the empty sequence.    *)

MaxRoundLen == 5       \* matches in one round
UpcomingCap == 8

Team(name) == [name |-> name]
TableOne == [name |-> "1"]

(* The matches a round is filled with, by what the derivations look at. *)
MatchOfKind(id, kind) ==
    [_id |-> id,
     team1 |-> Team(IF kind = "tbdTable" THEN "" ELSE "A"),
     team2 |-> Team(IF kind = "tbd" THEN "" ELSE "B"),
     result |-> IF kind \in {"done", "doneTable"} THEN <<3, 1>> ELSE <<0, 0>>,
     valid |-> kind \in {"done", "doneTable"},
     tables |-> IF kind \in {"current", "tbdTable", "doneTable"}
                THEN <<TableOne>> ELSE <<>>]

KindCycle == <<"waiting", "current", "done", "tbd", "current", "tbdTable",
               "waiting", "doneTable">>
RoundStyles == {"waiting", "mix0", "mix3", "mix5"}

KindAt(style, j) ==
    IF style = "waiting" THEN "waiting"
    ELSE LET phase == IF style = "mix0" THEN 0 ELSE IF style = "mix3" THEN 3 ELSE 5
         IN  KindCycle[((j + phase) % Len(KindCycle)) + 1]

RoundFill == {[len |-> 0, style |-> "waiting"]} \cup
             [len : 1..MaxRoundLen, style : RoundStyles]

RoundOf(tag, name, fill) ==
    [_id |-> tag, name |-> name,
     matches |-> [j \in 1..fill.len |-> MatchOfKind(<<tag, j>>, KindAt(fill.style, j))]]

GroupOf(standings, rounds, levels) ==
    [standings |-> standings, rounds |-> rounds, levels |-> levels]

OneMatch(kind) == [len |-> 1, style |-> IF kind = "current" THEN "mix0" ELSE "waiting"]

(* The loser side of the bracket: nothing, or one match that is on a table. *)
LoserSides == {"none", "left", "third"}

BracketOf(fill, loser) ==
    [_id |-> "ko", name |-> "KO", standings |-> <<>>, rounds |-> <<>>,
     double |-> loser = "left", thirdPlace |-> loser = "third",
     levels |-> <<RoundOf("w1", "FINALS-1-1", fill)>>,
     leftLevels |-> IF loser = "left"
                    THEN <<RoundOf("l1", "LOSER-1", OneMatch("current"))>> ELSE <<>>,
     third |-> IF loser = "third"
               THEN Some(RoundOf("t", "THIRD", OneMatch("current"))) ELSE Null]

QualifyingShapes == {"none", "one", "two"}
SecondGroup ==
    GroupOf(<<Standing("C")>>, <<>>, <<RoundOf("g2", "Runde 1", OneMatch("waiting"))>>)

StandingsViewSnapshots ==
    { [name |-> "X",
       qualifying |->
          IF shape = "none" THEN <<>>
          ELSE IF shape = "one"
               THEN <<GroupOf(st, <<RoundOf("q1", "Runde 1", a)>>, <<>>)>>
               ELSE <<GroupOf(st, <<RoundOf("q1", "Runde 1", a)>>, <<>>), SecondGroup>>,
       eliminations |-> <<BracketOf(b, loser)>>] :
        shape \in QualifyingShapes, st \in StandingsPool \cup {<<>>},
        a \in RoundFill, b \in RoundFill, loser \in LoserSides }

RECURSIVE ConcatAll(_)
ConcatAll(ss) == IF ss = <<>> THEN <<>> ELSE Head(ss) \o ConcatAll(Tail(ss))

(* Mutant: the standings of the last qualifying group. *)
GetGroupStandings_LastGroup ==
    IF IsNull(tournamentData) THEN <<>>
    ELSE IF Len(Snapshot.qualifying) > 0
         THEN Snapshot.qualifying[Len(Snapshot.qualifying)].standings
         ELSE <<>>

(* getGroupStandings *)
GetGroupStandings ==
    IF IsNull(tournamentData) THEN <<>>
    ELSE IF Len(Snapshot.qualifying) > 0 /\ Len(Snapshot.qualifying[1].standings) > 0
         THEN Snapshot.qualifying[1].standings
         ELSE <<>>

(* [...qualifying, ...eliminations], then per group [...rounds, ...levels],
   then round.matches: the matches the two forEach nests pass, in order. *)
VisitedRounds(data) ==
    LET groups == data.qualifying \o data.eliminations
    IN  ConcatAll([g \in 1..Len(groups) |-> groups[g].rounds \o groups[g].levels])

VisitedMatches(data) ==
    LET rounds == VisitedRounds(data)
    IN  ConcatAll([r \in 1..Len(rounds) |-> rounds[r].matches])

(* !match.valid && match.team1?.name && match.team2?.name *)
IsUpcoming(m) == ~m.valid /\ m.team1.name # "" /\ m.team2.name # ""

(* match.tables && match.tables.length > 0 *)
HasTable(m) == Len(m.tables) > 0

IsCurrent(m) == ~m.valid /\ HasTable(m) /\ m.team1.name # "" /\ m.team2.name # ""

(* allMatches.slice(0, 8) *)
Slice8(s) == SubSeq(s, 1, IF Len(s) < UpcomingCap THEN Len(s) ELSE UpcomingCap)

(* getUpcomingMatches *)
GetUpcomingMatches ==
    IF IsNull(tournamentData) THEN <<>>
    ELSE Slice8(SelectSeq(VisitedMatches(Snapshot), IsUpcoming))

(* getCurrentMatches *)
GetCurrentMatches ==
    IF IsNull(tournamentData) THEN <<>>
    ELSE SelectSeq(VisitedMatches(Snapshot), IsCurrent)

(* Mutant: the caller does not filter. *)
NextMatchesFilter_None(m) == TRUE

(* m => !m.tables || m.tables.length === 0 *)
NextMatchesFilter(m) == ~HasTable(m)

(* Variant: matches on a table are dropped before the cap is applied. *)
NextMatchesShown_FilterFirst ==
    IF IsNull(tournamentData) THEN <<>>
    ELSE Slice8(SelectSeq(SelectSeq(VisitedMatches(Snapshot), IsUpcoming),
                          NextMatchesFilter))

(* upcomingMatches.filter(m => !m.tables || m.tables.length === 0) *)
NextMatchesShown == SelectSeq(GetUpcomingMatches, NextMatchesFilter)

(* The standings view: the table, "Aktuelle Spiele", "Naechste Spiele".  It
   is rendered when the main-content chain reaches its standings branch. *)
RenderStandingsView ==
    /\ mounted
    /\ MainContent = "standings"
    /\ IsNull(rendered)
    /\ rendered' = Some([groupStandings |-> GetGroupStandings,
                         currentGames |-> GetCurrentMatches,
                         upcomingMatches |-> GetUpcomingMatches,
                         nextMatches |-> NextMatchesShown])
    /\ UNCHANGED <<mounted, selectedTournamentId, tournaments, tournamentData,
                   isLoading, error, prevPositions, positionChanges, displayMode,
                   isExporting, listReqs, dataReqs, pollInterval, decayTimer,
                   exports, exportOutcome>>
    /\ UNCHANGED <<countdownVars, clockVars, scrollVars>>

(* The state a view specification starts in: tournament X is selected, its
   snapshot p has arrived and is held as d = Some(p), the tracker effect has
   recorded the positions of p and its decay timeout has fired, no request is
   in flight. *)
HoldingSnapshot(d) ==
    /\ mounted = TRUE
    /\ selectedTournamentId = "X"
    /\ tournaments = <<InfoX, InfoY>>
    /\ tournamentData = d
    /\ isLoading = FALSE
    /\ error = NoError
    /\ prevPositions = IF HasStandings(Value(d))
                       THEN NewPositions(StandingsOf(Value(d)))
                       ELSE EmptyMap
    /\ positionChanges = EmptyMap
    /\ isExporting = FALSE
    /\ listReqs = <<>>
    /\ dataReqs = <<>>
    /\ pollInterval = "X"
    /\ decayTimer = TimerOff
    /\ exports = <<>>
    /\ exportOutcome = Null
    /\ rendered = Null
    /\ TimersAtMount
    /\ autoScroll = Some([ScrollRun("down") EXCEPT
                            !.inDom = (displayMode = "standings")])

StandingsViewInit ==
    /\ displayMode = "standings"
    /\ \E d \in {Some(p) : p \in StandingsViewSnapshots} :
          HoldingSnapshot(d)

StandingsViewSpec == StandingsViewInit /\ [][RenderStandingsView]_vars

---------------------------------------------------------------------------
(* Properties of the standings view                                        *)

Range(s) == {s[i] : i \in 1..Len(s)}

(* C11: groupStandings returns exactly the standings sequence of the first
   qualifying group, same elements in the same order, or the empty sequence
   when there is no snapshot, no qualifying group, or no standings. *)
C11_GroupStandingsVerbatim ==
    ~IsNull(rendered) =>
        LET got == Value(rendered).groupStandings
        IN  IF IsNull(tournamentData) \/ Value(tournamentData).qualifying = <<>>
            THEN got = <<>>
            ELSE LET first == Value(tournamentData).qualifying[1].standings
                 IN  /\ Len(got) = Len(first)
                     /\ \A i \in 1..Len(first) : got[i] = first[i]

(* Two qualifying groups, the first with several standings in an order that is
   not the alphabetical one. *)
C11_Witness ==
    /\ ~IsNull(rendered)
    /\ ~IsNull(tournamentData)
    /\ Len(Value(tournamentData).qualifying) = 2
    /\ Value(rendered).groupStandings = <<Standing("B"), Standing("A"), Standing("C")>>

(* C12: no match appears both in the rendered current-games list and in the
   rendered next-matches list. *)
C12_CurrentAndNextDisjoint ==
    ~IsNull(rendered) =>
        Range(Value(rendered).currentGames) \cap Range(Value(rendered).nextMatches) = {}

(* Both lists are shown, and a current match was among the capped upcoming
   matches before the caller's filter. *)
C12_Witness ==
    /\ ~IsNull(rendered)
    /\ Value(rendered).currentGames # <<>>
    /\ Value(rendered).nextMatches # <<>>
    /\ \E m \in Range(Value(rendered).upcomingMatches) :
          m \in Range(Value(rendered).currentGames)

(* Every round a snapshot carries: the rounds and levels of every group and
   bracket, the loser-side rounds and the third-place round of every bracket. *)
AllRoundsOf(data) ==
    UNION {Range(data.qualifying[g].rounds) \cup Range(data.qualifying[g].levels) :
              g \in 1..Len(data.qualifying)}
    \cup
    UNION {Range(data.eliminations[e].rounds) \cup Range(data.eliminations[e].levels)
           \cup Range(data.eliminations[e].leftLevels)
           \cup Range(data.eliminations[e].third) :
              e \in 1..Len(data.eliminations)}

AllMatchesOf(data) == UNION {Range(r.matches) : r \in AllRoundsOf(data)}

(* C19: currentMatches returns exactly the matches of all rounds, loser-side
   rounds and the third-place round included, that are not completed, have a
   table assigned and have both teams resolved. *)
C19_CurrentCoversAllRounds ==
    (~IsNull(rendered) /\ ~IsNull(tournamentData)) =>
        Range(Value(rendered).currentGames) =
            {m \in AllMatchesOf(Value(tournamentData)) :
                ~m.valid /\ Len(m.tables) > 0 /\ m.team1.name # "" /\ m.team2.name # ""}

(* The place of a match in the encounter order: the first qualifying group's
   round, the second group's round, the bracket's winner-side round. *)
RoundRank(tag) == IF tag = "q1" THEN 1 ELSE IF tag = "g2" THEN 2 ELSE 3
Before(m1, m2) ==
    \/ RoundRank(m1._id[1]) < RoundRank(m2._id[1])
    \/ RoundRank(m1._id[1]) = RoundRank(m2._id[1]) /\ m1._id[2] < m2._id[2]

PlayableMatches(data) ==
    {m \in Range(VisitedMatches(data)) :
        ~m.valid /\ m.team1.name # "" /\ m.team2.name # ""}

(* Every match of the snapshot that is not completed and has both teams
   resolved, on whichever round it is. *)
AllPlayableMatches(data) ==
    {m \in AllMatchesOf(data) : ~m.valid /\ m.team1.name # "" /\ m.team2.name # ""}

(* C20: upcomingMatches returns the first min(8, n) matches in encounter order
   among the n matches of the snapshot, over all its rounds, that are not
   completed and have both teams resolved, regardless of table assignment,
   never more than 8, never skipping an earlier match for a later one. *)
C20_UpcomingFirstEightOfAll ==
    (~IsNull(rendered) /\ ~IsNull(tournamentData)) =>
        LET up == Value(rendered).upcomingMatches
            playable == AllPlayableMatches(Value(tournamentData))
            walked == PlayableMatches(Value(tournamentData))
            n == Cardinality(playable)
        IN  /\ Len(up) = IF n < 8 THEN n ELSE 8
            /\ Len(up) <= 8
            /\ Range(up) \subseteq playable
            /\ \A i, j \in 1..Len(up) : i < j => Before(up[i], up[j])
            /\ \A m \in walked \ Range(up) : \A u \in Range(up) : Before(u, m)

---------------------------------------------------------------------------
(* View derivation: the bracket view                                       *)

(* String.prototype.toUpperCase, over the characters round names use. *)
UpperOf(c) ==
    CASE c = "a" -> "A" [] c = "b" -> "B" [] c = "c" -> "C" [] c = "d" -> "D"
      [] c = "e" -> "E" [] c = "f" -> "F" [] c = "g" -> "G" [] c = "h" -> "H"
      [] c = "i" -> "I" [] c = "j" -> "J" [] c = "k" -> "K" [] c = "l" -> "L"
      [] c = "m" -> "M" [] c = "n" -> "N" [] c = "o" -> "O" [] c = "p" -> "P"
      [] c = "q" -> "Q" [] c = "r" -> "R" [] c = "s" -> "S" [] c = "t" -> "T"
      [] c = "u" -> "U" [] c = "v" -> "V" [] c = "w" -> "W" [] c = "x" -> "X"
      [] c = "y" -> "Y" [] c = "z" -> "Z" [] OTHER -> c

RECURSIVE ToUpperCase(_)
ToUpperCase(s) ==
    IF Len(s) = 0 THEN ""
    ELSE UpperOf(SubSeq(s, 1, 1)) \o ToUpperCase(SubSeq(s, 2, Len(s)))

(* String.prototype.includes *)
Includes(s, sub) ==
    \E i \in 1..(Len(s) - Len(sub) + 1) : SubSeq(s, i, i + Len(sub) - 1) = sub

(* Mutant: the patterns are matched against the raw name. *)
GetRoundName_CaseSensitive(name) ==
    LET upperName == name
    IN  IF Includes(upperName, "FINALS-1-1") \/ upperName = "FINALE" \/ upperName = "FINAL"
        THEN "Finale"
        ELSE IF Includes(upperName, "FINALS-1-2") \/ Includes(upperName, "SEMI")
                \/ Includes(upperName, "HALBFINALE")
        THEN "Halbfinale"
        ELSE IF Includes(upperName, "FINALS-1-4") \/ Includes(upperName, "QUARTER")
                \/ Includes(upperName, "VIERTELFINALE")
        THEN "Viertelfinale"
        ELSE IF Includes(upperName, "FINALS-1-8") \/ Includes(upperName, "ACHTELFINALE")
        THEN "Achtelfinale"
        ELSE IF Includes(upperName, "FINALS-1-16")
        THEN "Sechzehntelfinale"
        ELSE IF Includes(upperName, "THIRD") \/ Includes(upperName, "PLATZ 3")
                \/ Includes(upperName, "BRONZE")
        THEN "Platz 3"
        ELSE name

(* getRoundName *)
GetRoundName(name) ==
    LET upperName == ToUpperCase(name)
    IN  IF Includes(upperName, "FINALS-1-1") \/ upperName = "FINALE" \/ upperName = "FINAL"
        THEN "Finale"
        ELSE IF Includes(upperName, "FINALS-1-2") \/ Includes(upperName, "SEMI")
                \/ Includes(upperName, "HALBFINALE")
        THEN "Halbfinale"
        ELSE IF Includes(upperName, "FINALS-1-4") \/ Includes(upperName, "QUARTER")
                \/ Includes(upperName, "VIERTELFINALE")
        THEN "Viertelfinale"
        ELSE IF Includes(upperName, "FINALS-1-8") \/ Includes(upperName, "ACHTELFINALE")
        THEN "Achtelfinale"
        ELSE IF Includes(upperName, "FINALS-1-16")
        THEN "Sechzehntelfinale"
        ELSE IF Includes(upperName, "THIRD") \/ Includes(upperName, "PLATZ 3")
                \/ Includes(upperName, "BRONZE")
        THEN "Platz 3"
        ELSE name

(* standings.findIndex(s => s.name === teamName) *)
FindIndex(standings, teamName) ==
    LET hits == {i \in 1..Len(standings) : standings[i].name = teamName}
    IN  IF hits = {} THEN -1
        ELSE (CHOOSE i \in hits : \A j \in hits : i <= j) - 1

(* getMedalClass; the standings are Null when the bracket carries none, the
   team name is empty when the team is not resolved. *)
GetMedalClass(teamName, standings, roundName) ==
    LET isFinale == Includes(roundName, "FINALS-1-1") \/ roundName = "Finale"
        isThirdPlace == Includes(roundName, "THIRD") \/ roundName = "Platz 3"
    IN  IF ~isFinale /\ ~isThirdPlace THEN ""
        ELSE IF teamName = "" \/ IsNull(standings) THEN ""
        ELSE LET index == FindIndex(Value(standings), teamName)
             IN  IF index = 0 THEN "medal-gold"
                 ELSE IF index = 1 THEN "medal-silver"
                 ELSE IF index = 2 THEN "medal-bronze"
                 ELSE IF index = 3 THEN "medal-fourth"
                 ELSE ""

(* match.team1?.name || 'TBD' *)
NameOrTBD(team) == IF team.name = "" THEN "TBD" ELSE team.name

(* match.valid && match.result[0] > match.result[1] ? 'winner' : '' *)
WinnerClass(valid, own, other) == IF valid /\ own > other THEN "winner" ELSE ""

(* Mutant: the bronze tag goes to the team with the higher score. *)
BronzeClass_Winner(isPlatz3Round, valid, own, other) ==
    IF isPlatz3Round /\ valid /\ own > other THEN "medal-bronze" ELSE ""

(* team1IsBronze ? 'medal-bronze' : '' with
   team1IsBronze = isPlatz3Round && match.valid && match.result[0] < match.result[1] *)
BronzeClass(isPlatz3Round, valid, own, other) ==
    IF isPlatz3Round /\ valid /\ own < other THEN "medal-bronze" ELSE ""

(* round.name.toUpperCase().includes('PLATZ') || ...includes('THIRD') *)
IsPlatz3Round(name) ==
    Includes(ToUpperCase(name), "PLATZ") \/ Includes(ToUpperCase(name), "THIRD")

RenderedTeam(shown, winner, medal) == [name |-> shown, winner |-> winner, medal |-> medal]

(* One round of the winner side. *)
WinnerRound(round, standings) ==
    [key |-> round._id, label |-> GetRoundName(round.name),
     matches |-> [k \in 1..Len(round.matches) |->
        LET match == round.matches[k]
        IN  [key |-> match._id,
             team1 |-> RenderedTeam(NameOrTBD(match.team1),
                          WinnerClass(match.valid, match.result[1], match.result[2]),
                          GetMedalClass(match.team1.name, standings, round.name)),
             team2 |-> RenderedTeam(NameOrTBD(match.team2),
                          WinnerClass(match.valid, match.result[2], match.result[1]),
                          GetMedalClass(match.team2.name, standings, round.name))]]]

(* One round of the loser side; the third-place round is always flagged. *)
LoserRound(round, label, isPlatz3Round) ==
    [key |-> round._id, label |-> label,
     matches |-> [k \in 1..Len(round.matches) |->
        LET match == round.matches[k]
        IN  [key |-> match._id,
             team1 |-> RenderedTeam(NameOrTBD(match.team1),
                          WinnerClass(match.valid, match.result[1], match.result[2]),
                          BronzeClass(isPlatz3Round, match.valid,
                                      match.result[1], match.result[2])),
             team2 |-> RenderedTeam(NameOrTBD(match.team2),
                          WinnerClass(match.valid, match.result[2], match.result[1]),
                          BronzeClass(isPlatz3Round, match.valid,
                                      match.result[2], match.result[1]))]]]

(* The third-place section of a single-elimination bracket. *)
ThirdSection(round, standings) ==
    [key |-> round._id, label |-> GetRoundName("THIRD"),
     matches |-> [k \in 1..Len(round.matches) |->
        LET match == round.matches[k]
        IN  [key |-> match._id,
             team1 |-> RenderedTeam(NameOrTBD(match.team1),
                          WinnerClass(match.valid, match.result[1], match.result[2]),
                          GetMedalClass(NameOrTBD(match.team1), standings, "THIRD")),
             team2 |-> RenderedTeam(NameOrTBD(match.team2),
                          WinnerClass(match.valid, match.result[2], match.result[1]),
                          GetMedalClass(NameOrTBD(match.team2), standings, "THIRD"))]]]

Reverse(s) == [i \in 1..Len(s) |-> s[Len(s) + 1 - i]]

(* elimination.thirdPlace && elimination.third && third.matches.length > 0 *)
HasThirdRound(e) ==
    e.thirdPlace /\ ~IsNull(e.third) /\ Len(Value(e.third).matches) > 0

(* The loser block: the third-place round first, then leftLevels reversed. *)
LoserBlock(e) ==
    (IF HasThirdRound(e)
     THEN <<LoserRound(Value(e.third), GetRoundName("THIRD"), TRUE)>>
     ELSE <<>>)
    \o [i \in 1..Len(e.leftLevels) |->
          LET round == Reverse(e.leftLevels)[i]
          IN  LoserRound(round, GetRoundName(round.name), IsPlatz3Round(round.name))]

(* One bracket of the bracket view. *)
BracketOnScreen(e) ==
    [key |-> e._id,
     winner |-> [i \in 1..Len(e.levels) |-> WinnerRound(e.levels[i], e.standings)],
     loser |-> IF e.double /\ Len(e.leftLevels) > 0 THEN Some(LoserBlock(e)) ELSE Null,
     third |-> IF ~e.double /\ HasThirdRound(e)
               THEN Some(ThirdSection(Value(e.third), e.standings)) ELSE Null]

(* One bracket of the PDF page: no third-place section. *)
BracketOnPdf(e) ==
    [key |-> e._id,
     winner |-> [i \in 1..Len(e.levels) |-> WinnerRound(e.levels[i], e.standings)],
     loser |-> IF e.double /\ Len(e.leftLevels) > 0 THEN Some(LoserBlock(e)) ELSE Null]

EliminationsOf(d) == IF IsNull(d) THEN <<>> ELSE Value(d).eliminations

(* [...elimination.leftLevels].reverse(): reverse() works in place on its
   receiver, which is the spread copy; elimination.leftLevels keeps its order. *)
LeftLevelsAfterReverse(e) == e.leftLevels

(* The snapshot after the bracket was rendered on screen and on the PDF page. *)
SnapshotAfterBracketRender(data) ==
    [data EXCEPT !.eliminations =
        [i \in 1..Len(data.eliminations) |->
            [data.eliminations[i] EXCEPT
                !.leftLevels = LeftLevelsAfterReverse(data.eliminations[i])]]]

(* A render in bracket mode: the bracket view, when the main-content chain
   reaches its bracket branch, and the bracket page of the hidden PDF
   container, which is outside that chain. *)
RenderBracketView ==
    /\ mounted
    /\ displayMode = "bracket"
    /\ IsNull(rendered)
    /\ rendered' =
          LET es == EliminationsOf(tournamentData)
          IN  Some([bracket |-> IF MainContent = "bracket"
                                THEN [i \in 1..Len(es) |-> BracketOnScreen(es[i])]
                                ELSE <<>>,
                    pdfBracket |-> [i \in 1..Len(es) |-> BracketOnPdf(es[i])]])
    /\ tournamentData' = IF IsNull(tournamentData) THEN Null
                       ELSE Some(SnapshotAfterBracketRender(Snapshot))
    /\ UNCHANGED <<mounted, selectedTournamentId, tournaments,
                   isLoading, error, prevPositions, positionChanges, displayMode,
                   isExporting, listReqs, dataReqs, pollInterval, decayTimer,
                   exports, exportOutcome>>
    /\ UNCHANGED <<countdownVars, clockVars, scrollVars>>

(* Inputs of the bracket view. *)
NamedStanding(name) == [_id |-> name, name |-> name]

FinalStandingsPool ==
    { Null, Some(<<>>),
      Some(<<NamedStanding("A"), NamedStanding("B"), NamedStanding("C"),
             NamedStanding("D"), NamedStanding("E")>>),
      Some(<<NamedStanding("C"), NamedStanding("A"), NamedStanding("C"),
             NamedStanding("B")>>) }

WinnerRoundNames ==
    { "FINALS-1-1", "finals-1-1", "Finale", "FINALE", "final", "Endspiel Final",
      "FINALS-1-2", "semi-foo", "Halbfinale", "FINALS-1-4", "Quarter", "viertelfinale",
      "FINALS-1-8", "Achtelfinale", "FINALS-1-16", "finals-1-16", "KO FINALS-1-16 A",
      "THIRD", "third", "Platz 3", "Spiel um Platz 3", "bronze", "randomname", "" }

LoserRoundNames == {"LOSER-1-1", "Spiel um Platz 3", "third place", "PLATZ 3", "bronze"}

TeamPairs == {<<"A", "B">>, <<"C", "D">>, <<"", "E">>, <<"E", "F">>}
MatchResults == {<<3, 1>>, <<1, 3>>, <<2, 2>>, <<0, 0>>}

BracketMatch(id, pair, valid, result) ==
    [_id |-> id, team1 |-> Team(pair[1]), team2 |-> Team(pair[2]),
     result |-> result, valid |-> valid, tables |-> <<>>]

BracketRound(tag, name, pair, valid, result) ==
    [_id |-> tag, name |-> name,
     matches |-> <<BracketMatch(<<tag, 1>>, pair, valid, result)>>]

(* The loser side of a bracket: double with two loser-side rounds, double
   with no loser-side round yet, or single; each with or without a
   third-place round. *)
LoserInputs ==
    [double : {FALSE}, left : {FALSE}, thirdPlace : BOOLEAN, name : {"LOSER-1-1"},
     valid : {TRUE}, result : {<<3, 1>>}]
    \cup
    [double : {TRUE}, left : {FALSE}, thirdPlace : BOOLEAN, name : {"LOSER-1-1"},
     valid : {TRUE}, result : {<<3, 1>>}]
    \cup
    [double : {TRUE}, left : {TRUE}, thirdPlace : BOOLEAN, name : LoserRoundNames,
     valid : BOOLEAN, result : MatchResults]

BracketViewSnapshots ==
    { [name |-> "X", qualifying |-> <<>>,
       eliminations |-> <<
         [_id |-> "ko", name |-> "KO", standings |-> st, rounds |-> <<>>,
          double |-> lo.double, thirdPlace |-> lo.thirdPlace,
          levels |-> <<BracketRound("w1", "FINALS-1-2", <<"C", "D">>, TRUE, <<3, 1>>),
                       BracketRound("w2", wname, pair, FALSE, <<0, 0>>)>>,
          leftLevels |-> IF lo.left
                         THEN <<BracketRound("l1", "LOSER-1-2", <<"C", "D">>, TRUE, <<1, 3>>),
                                BracketRound("l2", lo.name, <<"A", "B">>, lo.valid, lo.result)>>
                         ELSE <<>>,
          third |-> IF lo.thirdPlace
                    THEN Some(BracketRound("t", "THIRD", <<"C", "D">>, lo.valid, lo.result))
                    ELSE Null] >>] :
        st \in FinalStandingsPool, wname \in WinnerRoundNames, pair \in TeamPairs,
        lo \in LoserInputs }

BracketViewInit ==
    /\ displayMode = "bracket"
    /\ \E d \in {Some(p) : p \in BracketViewSnapshots} :
          HoldingSnapshot(d)

BracketViewSpec == BracketViewInit /\ [][RenderBracketView]_vars

---------------------------------------------------------------------------
(* Properties of the bracket view                                          *)

SixLabels ==
    {"Finale", "Halbfinale", "Viertelfinale", "Achtelfinale", "Sechzehntelfinale",
     "Platz 3"}

SubstringPatterns ==
    {"FINALS-1-1", "FINALS-1-2", "SEMI", "HALBFINALE", "FINALS-1-4", "QUARTER",
     "VIERTELFINALE", "FINALS-1-8", "ACHTELFINALE", "FINALS-1-16", "THIRD", "PLATZ 3",
     "BRONZE"}

MatchesAPattern(n) ==
    LET u == ToUpperCase(n)
    IN  u \in {"FINALE", "FINAL"} \/ \E pat \in SubstringPatterns : Includes(u, pat)

ContainsAnyCase(n, word) == Includes(ToUpperCase(n), ToUpperCase(word))

(* The brackets of the held snapshot with what the screen and the PDF page
   show of them. *)
ShownBrackets ==
    IF IsNull(rendered) \/ IsNull(tournamentData) THEN {}
    ELSE {[e |-> Value(tournamentData).eliminations[i], b |-> Value(rendered).bracket[i]] :
             i \in 1..Len(Value(tournamentData).eliminations)}
         \cup
         {[e |-> Value(tournamentData).eliminations[i], b |-> Value(rendered).pdfBracket[i]] :
             i \in 1..Len(Value(tournamentData).eliminations)}

(* The winner-side rounds with their rendering. *)
ShownWinnerRounds ==
    UNION {{[raw |-> sb.e.levels[i], out |-> sb.b.winner[i], standings |-> sb.e.standings] :
               i \in 1..Len(sb.e.levels)} : sb \in ShownBrackets}

(* The loser-side rounds with their rendering. *)
LoserOut(sb) == IF IsNull(sb.b.loser) THEN <<>> ELSE Value(sb.b.loser)
ShownLoserRounds ==
    UNION {{x \in {[raw |-> r, out |-> lr] :
                      r \in Range(sb.e.leftLevels), lr \in Range(LoserOut(sb))} :
               x.out.key = x.raw._id} : sb \in ShownBrackets}

(* Raw round names with the labels shown for them. *)
ShownLabels ==
    {<<x.raw.name, x.out.label>> : x \in ShownWinnerRounds \cup ShownLoserRounds}

AllRoundNames == WinnerRoundNames \cup LoserRoundNames \cup {"FINALS-1-2", "LOSER-1-2"}

(* The names of the inputs in upper case, and their labels. *)
UpperCased == [n \in AllRoundNames |-> ToUpperCase(n)]
LabelOf == [n \in AllRoundNames |-> GetRoundName(n)]

(* C13: roundDisplayName returns one of the six labels or the raw name
   unchanged; matching is case-insensitive; a name matching no pattern is
   returned unchanged; FINALS-1-1 gives Finale, semi-foo gives Halbfinale,
   randomname gives randomname. *)
C13_RoundDisplayName ==
    \A nl \in ShownLabels :
        LET n == nl[1]
            l == nl[2]
        IN  /\ l \in SixLabels \cup {n}
            /\ MatchesAPattern(n) => l \in SixLabels
            /\ ~MatchesAPattern(n) => l = n
            /\ n = "FINALS-1-1" => l = "Finale"
            /\ n = "semi-foo" => l = "Halbfinale"
            /\ n = "randomname" => l = "randomname"
            /\ \A n2 \in AllRoundNames :
                  UpperCased[n2] = UpperCased[n] =>
                      \/ LabelOf[n2] = l
                      \/ LabelOf[n2] = n2 /\ l = n

(* A lower-case name is shown with the label of its pattern. *)
C13_Witness ==
    /\ <<"semi-foo", "Halbfinale">> \in ShownLabels
    /\ <<"FINALS-1-2", "Halbfinale">> \in ShownLabels

(* C14: every raw name containing finals-1-16 (any letter case) maps to
   Sechzehntelfinale, not to Finale. *)
C14_RoundOf32Label ==
    \A nl \in ShownLabels :
        ContainsAnyCase(nl[1], "finals-1-16") => nl[2] = "Sechzehntelfinale"

(* What a round name indicates, by the naming convention. *)
IndicatesFinal(n) ==
    \/ ContainsAnyCase(n, "finals-1-1") /\ ~ContainsAnyCase(n, "finals-1-16")
    \/ ToUpperCase(n) \in {"FINALE", "FINAL"}
IndicatesThird(n) ==
    ContainsAnyCase(n, "third") \/ ContainsAnyCase(n, "platz 3")
    \/ ContainsAnyCase(n, "bronze")

(* C15: medalClass returns no medal tier for every round whose name does not
   indicate the Final or the Third-Place round, even when the team is at
   index 0..3 of the final standings. *)
C15_NoMedalOutsideFinalAndThird ==
    \A x \in ShownWinnerRounds :
        (~IndicatesFinal(x.raw.name) /\ ~IndicatesThird(x.raw.name)) =>
            \A k \in 1..Len(x.out.matches) :
                x.out.matches[k].team1.medal = "" /\ x.out.matches[k].team2.medal = ""

Tiers == <<"medal-gold", "medal-silver", "medal-bronze", "medal-fourth">>

(* The tier of a team by the first standings entry that has its name. *)
TierByIndex(teamName, standings) ==
    IF teamName = "" \/ IsNull(standings) THEN ""
    ELSE LET st == Value(standings)
             found == {i \in 1..Len(st) : st[i].name = teamName}
         IN  IF found = {} THEN ""
             ELSE LET first == CHOOSE i \in found : \A j \in found : i <= j
                  IN  IF first <= 4 THEN Tiers[first] ELSE ""

(* C16: for a round indicating the Final or the Third-Place round (names
   classified case-insensitively), medalClass returns the tier given by the
   index of the first standings entry with the team's name, and none when the
   team is unresolved, the standings are absent, the team is not found or the
   index is 4 or higher. *)
C16_MedalTierByIndex ==
    \A x \in ShownWinnerRounds :
        (IndicatesFinal(x.raw.name) \/ IndicatesThird(x.raw.name)) =>
            \A k \in 1..Len(x.out.matches) :
                /\ x.out.matches[k].team1.medal =
                      TierByIndex(x.raw.matches[k].team1.name, x.standings)
                /\ x.out.matches[k].team2.medal =
                      TierByIndex(x.raw.matches[k].team2.name, x.standings)

(* C17: in a rendered loser-side round whose name contains platz or third
   (any case), the team of a completed match with the strictly lower score is
   tagged bronze and the other is not; in an uncompleted or drawn match
   neither is; in loser-side rounds without such a name no team is tagged. *)
C17_LoserBracketBronze ==
    /\ \A sb \in ShownBrackets :
          (sb.e.double /\ Len(sb.e.leftLevels) > 0) =>
              /\ ~IsNull(sb.b.loser)
              /\ \A r \in Range(sb.e.leftLevels) :
                    \E lr \in Range(Value(sb.b.loser)) : lr.key = r._id
    /\ \A x \in ShownLoserRounds :
          LET named == ContainsAnyCase(x.raw.name, "platz")
                       \/ ContainsAnyCase(x.raw.name, "third")
          IN  \A k \in 1..Len(x.raw.matches) :
                LET m == x.raw.matches[k]
                    bronze1 == x.out.matches[k].team1.medal = "medal-bronze"
                    bronze2 == x.out.matches[k].team2.medal = "medal-bronze"
                IN  /\ (named /\ m.valid /\ m.result[1] < m.result[2]) =>
                           bronze1 /\ ~bronze2
                    /\ (named /\ m.valid /\ m.result[2] < m.result[1]) =>
                           bronze2 /\ ~bronze1
                    /\ (~named \/ ~m.valid \/ m.result[1] = m.result[2]) =>
                           ~bronze1 /\ ~bronze2

(* A completed 3:1 in a loser-side round named after place 3: team2 carries
   the bronze tag, team1 does not. *)
C17_Witness ==
    \E x \in ShownLoserRounds :
        /\ x.raw.name = "Spiel um Platz 3"
        /\ x.raw.matches[1].valid
        /\ x.raw.matches[1].result = <<3, 1>>
        /\ x.out.matches[1].team2.medal = "medal-bronze"
        /\ x.out.matches[1].team1.medal = ""

---------------------------------------------------------------------------
(* View derivation: the results view, teams that did not reach the bracket *)

MaxGroupTeams == 3     \* teams in the first qualifying group
MissingPlaceRank == 999

(* A standing with its place; the place is Null when upstream sends none. *)
PlacedStanding(id, place) == [_id |-> id, name |-> id, stats |-> [place |-> place]]

(* Mutant: a missing place sorts first. *)
PlaceOrLast_First(team) ==
    IF IsNull(team.stats.place) \/ Value(team.stats.place) = 0
    THEN 0 ELSE Value(team.stats.place)

(* a.stats?.place || 999 *)
PlaceOrLast(team) ==
    IF IsNull(team.stats.place) \/ Value(team.stats.place) = 0
    THEN MissingPlaceRank ELSE Value(team.stats.place)

(* Array.prototype.sort with the comparator of the results view: stable, so
   teams with equal keys keep their order. *)
RECURSIVE InsertByPlace(_, _)
InsertByPlace(team, sorted) ==
    IF sorted = <<>> THEN <<team>>
    ELSE IF PlaceOrLast(Head(sorted)) - PlaceOrLast(team) > 0
         THEN <<team>> \o sorted
         ELSE <<Head(sorted)>> \o InsertByPlace(team, Tail(sorted))

RECURSIVE SortByPlace(_)
SortByPlace(teams) ==
    IF teams = <<>> THEN <<>>
    ELSE InsertByPlace(teams[Len(teams)], SortByPlace(SubSeq(teams, 1, Len(teams) - 1)))

(* new Set(elimination.standings?.map(t => t._id) || []) *)
KoTeamIds(e) ==
    IF IsNull(e.standings) THEN {}
    ELSE {Value(e.standings)[i]._id : i \in 1..Len(Value(e.standings))}

(* tournamentData.qualifying?.[0]?.standings?.filter(t => !koTeamIds.has(t._id)) || [] *)
QualifyingTeams(data, e) ==
    IF data.qualifying = <<>> THEN <<>>
    ELSE LET NotInKo(t) == t._id \notin KoTeamIds(e)
         IN  SelectSeq(data.qualifying[1].standings, NotInKo)

(* elimination.standings?.length || 0 *)
KoParticipantCount(e) == IF IsNull(e.standings) THEN 0 ELSE Len(Value(e.standings))

(* The list "Vorrunde (nicht fuer KO qualifiziert)" of one bracket. *)
NonKoList(data, e) ==
    LET sorted == SortByPlace(QualifyingTeams(data, e))
    IN  [i \in 1..Len(sorted) |->
            [key |-> sorted[i]._id,
             number |-> KoParticipantCount(e) + (i - 1) + 1,
             name |-> sorted[i].name]]

(* Variant: the non-KO sort runs on the group's standings themselves. *)
GroupStandingsAfterSort_InPlace(standings) == SortByPlace(standings)

(* qualifyingTeams.sort(...): sort() works in place on its receiver, which is
   the array filter() returned; the group's standings keep their order. *)
GroupStandingsAfterSort(standings) == standings

(* The snapshot after the results were rendered on screen and on the PDF page:
   slice(3), the groupedByPlace arrays and Object.entries() are fresh arrays. *)
SnapshotAfterResultsRender(data) ==
    IF data.qualifying = <<>> \/ data.eliminations = <<>> THEN data
    ELSE [data EXCEPT !.qualifying[1].standings = GroupStandingsAfterSort(@)]

(* A render in results mode: the results view, when the main-content chain
   reaches its last branch, and the results page of the hidden PDF container,
   which is outside that chain. *)
RenderResultsView ==
    /\ mounted
    /\ displayMode = "results"
    /\ IsNull(rendered)
    /\ rendered' =
          LET es == EliminationsOf(tournamentData)
          IN  Some([results |-> IF MainContent = "results"
                                THEN [i \in 1..Len(es) |->
                                        [key |-> es[i]._id,
                                         nonKo |-> NonKoList(Snapshot, es[i])]]
                                ELSE <<>>,
                    pdfResults |-> [i \in 1..Len(es) |->
                        [key |-> es[i]._id, nonKo |-> NonKoList(Snapshot, es[i])]]])
    /\ tournamentData' = IF IsNull(tournamentData) THEN Null
                       ELSE Some(SnapshotAfterResultsRender(Snapshot))
    /\ UNCHANGED <<mounted, selectedTournamentId, tournaments,
                   isLoading, error, prevPositions, positionChanges, displayMode,
                   isExporting, listReqs, dataReqs, pollInterval, decayTimer,
                   exports, exportOutcome>>
    /\ UNCHANGED <<countdownVars, clockVars, scrollVars>>

(* Inputs of the results view. *)
GroupTeamIds == {"A", "B", "P", "Q"}
PlacePool == {Null, Some(1), Some(9), Some(11)}

RECURSIVE DistinctSeqs(_, _)
DistinctSeqs(ids, n) ==
    IF n = 0 THEN {<<>>}
    ELSE {<<>>} \cup
         UNION {{<<id>> \o rest : rest \in DistinctSeqs(ids \ {id}, n - 1)} : id \in ids}

GroupStandingsPool ==
    UNION {{[i \in 1..Len(ids) |-> PlacedStanding(ids[i], places[i])] :
               places \in [1..Len(ids) -> PlacePool]} :
           ids \in DistinctSeqs(GroupTeamIds, MaxGroupTeams)}

KoStandingsPool ==
    { Null, Some(<<>>),
      Some(<<PlacedStanding("B", Some(1)), PlacedStanding("A", Some(2))>>),
      Some(<<PlacedStanding("K1", Some(1)), PlacedStanding("K2", Some(2)),
             PlacedStanding("A", Some(3)), PlacedStanding("K4", Some(4)),
             PlacedStanding("K5", Some(5)), PlacedStanding("K6", Some(5)),
             PlacedStanding("K7", Some(5)), PlacedStanding("K8", Some(5))>>) }

ResultsViewSnapshots ==
    { [name |-> "X",
       qualifying |-> q,
       eliminations |-> <<
         [_id |-> "ko", name |-> "KO", standings |-> ko, rounds |-> <<>>,
          double |-> FALSE, thirdPlace |-> FALSE,
          levels |-> <<BracketRound("w1", "FINALS-1-1", <<"A", "B">>, TRUE, <<3, 1>>)>>,
          leftLevels |-> <<>>, third |-> Null] >>] :
        q \in {<<>>} \cup {<<GroupOf(st, <<>>, <<>>)>> : st \in GroupStandingsPool},
        ko \in KoStandingsPool }

ResultsViewInit ==
    /\ displayMode = "results"
    /\ \E d \in {Some(p) : p \in ResultsViewSnapshots} :
          HoldingSnapshot(d)

ResultsViewSpec == ResultsViewInit /\ [][RenderResultsView]_vars

---------------------------------------------------------------------------
(* Properties of the results view                                          *)

(* The brackets of the held snapshot with their non-KO lists, on screen and
   on the PDF page. *)
ShownNonKoLists ==
    IF IsNull(rendered) \/ IsNull(tournamentData) THEN {}
    ELSE {[e |-> Value(tournamentData).eliminations[i],
           list |-> Value(rendered).results[i].nonKo] :
             i \in 1..Len(Value(tournamentData).eliminations)}
         \cup
         {[e |-> Value(tournamentData).eliminations[i],
           list |-> Value(rendered).pdfResults[i].nonKo] :
             i \in 1..Len(Value(tournamentData).eliminations)}

FirstGroupTeams ==
    IF Value(tournamentData).qualifying = <<>> THEN {}
    ELSE Range(Value(tournamentData).qualifying[1].standings)

(* The qualifying place of a listed team, a missing place counting as 999. *)
RankOf(id) ==
    LET team == CHOOSE t \in FirstGroupTeams : t._id = id
    IN  IF IsNull(team.stats.place) THEN 999 ELSE Value(team.stats.place)

(* C18: the overflow teams are exactly the first qualifying group's teams
   absent from the bracket's final standings, listed in ascending qualifying
   place (a missing place last, as 999) and numbered consecutively from the
   bracket participant count + 1, whatever their upstream place. *)
C18_NonKoOverflowListing ==
    \A x \in ShownNonKoLists :
        LET koIds == IF IsNull(x.e.standings) THEN {}
                     ELSE {t._id : t \in Range(Value(x.e.standings))}
            count == IF IsNull(x.e.standings) THEN 0 ELSE Len(Value(x.e.standings))
        IN  /\ {x.list[i].key : i \in 1..Len(x.list)} =
                   {t._id : t \in {u \in FirstGroupTeams : u._id \notin koIds}}
            /\ \A i, j \in 1..Len(x.list) :
                  i < j => /\ x.list[i].key # x.list[j].key
                           /\ RankOf(x.list[i].key) <= RankOf(x.list[j].key)
            /\ \A i \in 1..Len(x.list) : x.list[i].number = count + i

(* Eight bracket participants, overflow teams with places 11 and 9 upstream in
   that order: the team of place 9 is shown as 9., the team of place 11 as 10. *)
C18_Witness ==
    \E x \in ShownNonKoLists :
        /\ ~IsNull(x.e.standings)
        /\ Len(Value(x.e.standings)) = 8
        /\ Value(tournamentData).qualifying # <<>>
        /\ Value(tournamentData).qualifying[1].standings =
              <<PlacedStanding("A", Some(1)), PlacedStanding("P", Some(11)),
                PlacedStanding("Q", Some(9))>>
        /\ x.list = <<[key |-> "Q", number |-> 9, name |-> "Q"],
                      [key |-> "P", number |-> 10, name |-> "P"]>>

---------------------------------------------------------------------------
(* Properties of the fetchers                                              *)

(* C21: the tournament-list fetch is issued exactly once, at startup; no
   later event (default selection, user selection, poll, refresh) issues it
   again: a step only ever takes a list request out of flight. *)
C21_ListFetchedOnce ==
    [][\/ listReqs' = listReqs
       \/ \E i \in 1..Len(listReqs) : listReqs' = RemoveAt(listReqs, i)]_vars

(* C22: when a tournament becomes selected one snapshot request for it is
   issued at once and the poll interval runs for it while it stays selected;
   a selection change cancels the previous interval, so every request that is
   initiated is for the tournament selected at that moment, and none is
   initiated while no tournament is selected. *)
C22_PollFollowsSelection ==
    /\ [](pollInterval = IF mounted THEN selectedTournamentId ELSE NoSelection)
    /\ [][/\ (mounted /\ selectedTournamentId' # selectedTournamentId) =>
                 /\ dataReqs' = Append(dataReqs, DataRequest(selectedTournamentId'))
                 /\ pollInterval' = selectedTournamentId'
          /\ Len(dataReqs') > Len(dataReqs) =>
                 /\ selectedTournamentId' # NoSelection
                 /\ dataReqs'[Len(dataReqs')].tid = selectedTournamentId']_vars

(* The user went from the default Y to X: the request issued on the change
   and a poll are in flight, both for X, and the interval polls X. *)
C22_Witness ==
    /\ mounted
    /\ selectedTournamentId = "X"
    /\ pollInterval = "X"
    /\ dataReqs = <<DataRequest("X"), DataRequest("X")>>
    /\ ~IsNull(tournamentData)
    /\ Value(tournamentData).name = "Y"

---------------------------------------------------------------------------
(* Properties of the render order and of the snapshot                      *)

KeysOf(rounds) == [i \in 1..Len(rounds) |-> rounds[i].key]
IdsOf(rounds) == [i \in 1..Len(rounds) |-> rounds[i]._id]

(* C23: winner-side rounds are rendered in the given order; for a
   double-elimination bracket the loser-side rounds are rendered in reverse
   of the given order, and a third-place round that is present is rendered
   before all of them, also when the loser-side round list is empty. *)
C23_BracketRenderOrder ==
    \A sb \in ShownBrackets :
        /\ KeysOf(sb.b.winner) = IdsOf(sb.e.levels)
        /\ sb.e.double =>
              LET third == IF sb.e.thirdPlace /\ ~IsNull(sb.e.third)
                           THEN <<Value(sb.e.third)._id>> ELSE <<>>
              IN  KeysOf(LoserOut(sb)) = third \o IdsOf(Reverse(sb.e.leftLevels))

(* The first eight playable matches of the encounter order. *)
FirstEightPlayable(data) ==
    {m \in PlayableMatches(data) :
        Cardinality({u \in PlayableMatches(data) : Before(u, m)}) < 8}

(* C28: the rendered next-matches list is a subsequence of the first 8
   upcoming matches in encounter order: at most 8 entries, and when k of
   those first 8 are on a table exactly the other 8 - k, never filled up with
   upcoming matches beyond the 8th. *)
C28_NextMatchesWithinFirstEight ==
    (~IsNull(rendered) /\ ~IsNull(tournamentData)) =>
        LET next == Value(rendered).nextMatches
            first == FirstEightPlayable(Value(tournamentData))
            k == Cardinality({m \in first : Len(m.tables) > 0})
        IN  /\ Len(next) <= 8
            /\ Range(next) = {m \in first : Len(m.tables) = 0}
            /\ Len(next) = Cardinality(first) - k
            /\ \A i, j \in 1..Len(next) : i < j => Before(next[i], next[j])

(* More than eight playable matches, some of the first eight on a table and a
   match without table beyond the eighth: the list stays shorter than 8. *)
C28_Witness ==
    /\ ~IsNull(rendered)
    /\ ~IsNull(tournamentData)
    /\ LET data == Value(tournamentData)
           first == FirstEightPlayable(data)
       IN  /\ Cardinality(first) = 8
           /\ \E m \in first : Len(m.tables) > 0
           /\ \E m \in PlayableMatches(data) \ first : Len(m.tables) = 0
           /\ Len(Value(rendered).nextMatches) =
                  8 - Cardinality({m \in first : Len(m.tables) > 0})

---------------------------------------------------------------------------
(* Properties of the selection and of the held snapshot                    *)

(* A step in which a list response is handled: its request leaves the
   requests in flight; the selection it sets may issue a new one. *)
ListResponseStep ==
    \E i \in 1..Len(listReqs) :
        \/ listReqs' = RemoveAt(listReqs, i)
        \/ listReqs' = Append(RemoveAt(listReqs, i), selectedTournamentId')

(* C26: a list response sets the selection only when no tournament is
   selected yet, choosing the tournament with the latest date; once a
   tournament is selected no list response changes the selection. *)
C26_ListResponseKeepsSelection ==
    [][(ListResponseStep /\ selectedTournamentId' # selectedTournamentId) =>
           /\ selectedTournamentId = NoSelection
           /\ Len(tournaments') > 0
           /\ \A j \in 1..Len(tournaments') :
                 tournaments'[j]._id = selectedTournamentId' =>
                     \A h \in 1..Len(tournaments') :
                         tournaments'[h].date <= tournaments'[j].date]_vars

(* The user chose X, which is not the latest tournament, while the list
   request issued for the earlier selection Y was still unanswered; the
   request issued for X has been answered first and X is still selected, with
   the response to Y's request yet to come. *)
C26_Witness ==
    /\ mounted
    /\ selectedTournamentId = "X"
    /\ tournaments = <<InfoX, InfoY>>
    /\ listReqs = <<"Y">>
    /\ error = NoError

(* C27: a snapshot once received is never reset to empty by any event, so
   after a selection change the previous tournament's snapshot is held until
   the first response is stored; a snapshot that gets stored is the payload
   of the response to a request that was in flight. *)
C27_SnapshotNeverReset ==
    [][/\ ~IsNull(tournamentData) => ~IsNull(tournamentData')
       /\ (selectedTournamentId' # selectedTournamentId) =>
              tournamentData' = tournamentData
       /\ tournamentData' # tournamentData =>
              \E i \in 1..Len(dataReqs) :
                  /\ Value(tournamentData') \in Payloads(dataReqs[i].tid)
                  /\ Len(dataReqs') = Len(dataReqs) - 1]_vars

(* Y is selected and its first request is still in flight, nothing for Y has
   arrived: the snapshot held is X's. *)
C27_Witness ==
    /\ mounted
    /\ selectedTournamentId = "Y"
    /\ dataReqs = <<DataRequest("Y")>>
    /\ isLoading
    /\ ~IsNull(tournamentData)
    /\ Value(tournamentData).name = "X"

---------------------------------------------------------------------------
(* The three views over held snapshots, with polls and refreshes that fail *)

StandingsViewSample ==
    {p \in StandingsViewSnapshots :
        /\ Len(p.qualifying) = 2
        /\ p.qualifying[1].standings = <<Standing("B"), Standing("A"), Standing("C")>>}

BracketViewSample ==
    {p \in BracketViewSnapshots :
        /\ p.eliminations[1].levels[2].name = "FINALS-1-1"
        /\ p.eliminations[1].levels[2].matches[1].team1.name = "A"
        /\ ~IsNull(p.eliminations[1].standings)}

ResultsViewSample ==
    {p \in ResultsViewSnapshots :
        /\ ~IsNull(p.eliminations[1].standings)
        /\ Len(Value(p.eliminations[1].standings)) = 8}

ViewsInit ==
    \/ /\ displayMode = "standings"
       /\ \E p \in StandingsViewSample : HoldingSnapshot(Some(p))
    \/ /\ displayMode = "bracket"
       /\ \E p \in BracketViewSample : HoldingSnapshot(Some(p))
    \/ /\ displayMode = "results"
       /\ \E p \in ResultsViewSample : HoldingSnapshot(Some(p))

ViewsNext ==
    \/ RenderStandingsView
    \/ RenderBracketView
    \/ RenderResultsView
    \/ PollFire
    \/ RefreshClick
    \/ \E i \in 1..MaxDataInFlight : FetchDataFail(i)

ViewsSpec == ViewsInit /\ [][ViewsNext]_vars

(* C24: no view derivation or render changes the content or the element
   order of any sequence inside the held snapshot; while no response is
   stored the snapshot stays as it is. *)
C24_SnapshotImmutable ==
    [][tournamentData' = tournamentData]_vars

(* The results were rendered with the overflow teams in place order, Q before
   P, and the group's standings still list P before Q. *)
C24_Witness ==
    /\ ~IsNull(rendered)
    /\ displayMode = "results"
    /\ KeysOf(Value(rendered).results[1].nonKo) = <<"Q", "P">>
    /\ Value(tournamentData).qualifying[1].standings =
          <<PlacedStanding("A", Some(1)), PlacedStanding("P", Some(11)),
            PlacedStanding("Q", Some(9))>>

---------------------------------------------------------------------------
(* The countdown *)

(* The number a value of the number inputs stands for. *)
IntendedNumber(v) ==
    CASE v = "" -> 0
      [] v = "0" -> 0
      [] v = "1" -> 1
      [] v = "-1" -> 0 - 1
      [] v = "1.5" -> 1
      [] v = "2" -> 2
      [] v = "07" -> 7

IntendedTotal == IntendedNumber(customMinutes) * 60 + IntendedNumber(customSeconds)

CountdownState == <<time, isRunning, initialTime, countdownInterval>>

(* C29: over every sequence of countdown operations the remaining time is
   never negative; a tick happens only while the timer runs with time left;
   the timer is not running at time 0, and starting it there stops it again;
   reset restores the last configured initial time and stops the timer; the
   initial time is configured by a preset or a positive custom time only; a
   custom time whose total is not positive changes nothing. *)
C29_CountdownInvariants ==
    /\ [](time >= 0)
    /\ [](countdownInterval => isRunning /\ time > 0)
    /\ [](time = 0 => ~isRunning)
    /\ [][CountdownTick => isRunning /\ time > 0 /\ time' = time - 1]_vars
    /\ [][ToggleTimer /\ time = 0 => ~isRunning' /\ ~countdownInterval']_vars
    /\ [][ResetTimer => time' = initialTime /\ ~isRunning'
                        /\ initialTime' = initialTime]_vars
    /\ [][\A minutes \in PresetMinutes :
             SetPresetTime(minutes) => initialTime' = minutes * 60
                                       /\ time' = minutes * 60 /\ ~isRunning']_vars
    /\ [][SetCustomTime =>
             IF IntendedTotal > 0
             THEN initialTime' = IntendedTotal /\ time' = IntendedTotal
                  /\ ~isRunning'
             ELSE UNCHANGED CountdownState]_vars
    /\ [][initialTime' # initialTime =>
             SetCustomTime \/ \E minutes \in PresetMinutes : SetPresetTime(minutes)]_vars

(* The countdown ran from a custom time of two seconds down to 0 and stopped. *)
C29_Witness ==
    /\ time = 0
    /\ ~isRunning
    /\ ~countdownInterval
    /\ initialTime = 2
    /\ customSeconds = "2"

---------------------------------------------------------------------------
(* Teardown *)

(* A timer callback of the component runs. *)
TimerCallback ==
    \/ PollFire
    \/ DecayFire
    \/ ClockTick
    \/ CountdownTick
    \/ \E scrollable \in BOOLEAN, atEnd \in BOOLEAN : AutoScrollTick(scrollable, atEnd)
    \/ PauseTimeoutFire
    \/ UserScrollTimeoutFire

(* C25: after the component has unmounted no timer is pending and no timer
   callback runs: the poll interval, the clock interval, the countdown
   interval, the scroll interval with its pause timeout, the resume timeout
   of the scroll handler and the decay timeout are all cancelled. *)
C25_NoTimerAfterTeardown ==
    /\ [](~mounted => /\ pollInterval = NoSelection
                      /\ decayTimer = TimerOff
                      /\ ~clockInterval
                      /\ ~countdownInterval
                      /\ IsNull(autoScroll)
                      /\ ~pauseTimeout
                      /\ ~userScrollTimeout)
    /\ [][~mounted => ~TimerCallback]_vars

====
